---- MODULE Spec2Model ----
(***************************************************************************)
(* The Vulkan tutorial programs of this repository as a state machine.     *)
(*                                                                         *)
(*   "instance"  src/unnamed/part_001       instance creation              *)
(*   "device"    src/src/main.cpp:977-1381  validation layers, devices     *)
(*   "pipeline"  src/src/main.cpp:1-975     swapchain, graphics pipeline   *)
(*   "final"     src/unnamed/part_000       frame loop, uniform buffers    *)
(*                                                                         *)
(* The host thread is one process with a program position pc; the GPU      *)
(* queue, the presentation engine and the window system are the other      *)
(* processes.  Vulkan handles are modelled by what the claims need of      *)
(* them: a semaphore or fence is its signalled bit, the swapchain and the  *)
(* objects made from it are "live" or "destroyed", and a reference kept in *)
(* a recorded command buffer or a queued operation is an index into the    *)
(* current swapchain's objects, or Outdated once that swapchain has been   *)
(* replaced.                                                               *)
(***************************************************************************)
EXTENDS Integers, Sequences, FiniteSets, TLC

VARIABLES
  program,                  \* which milestone program is running
  pc,                       \* position of the host thread
  exception,                \* the exception in flight, or NoException
  exitCode,                 \* what main returned ("none" while running)
  stderr,                   \* what main's handler printed
  failure,                  \* history: the first failure a step reported
  windowSize,               \* the window's framebuffer size (window system)
  shouldClose,              \* glfwWindowShouldClose
  currentFrame,             \* Application::currentFrame
  frameIndex,               \* frame(): frameIndex
  imageIndex,               \* frame(): imageIndex
  acquireResult,            \* frame(): acquireResult
  presentResult,            \* frame(): presentResult
  rcSize,                   \* recreateVulkanSwapchain(): width, height
  vkSwapchain,              \* "VK_NULL_HANDLE", "live" or "destroyed"
  vkSwapchainImages,        \* size of the image vector
  vkSwapchainImageViews,    \* [size, alive]
  vkSwapchainFramebuffers,  \* [size, alive]
  vkSwapchainExtent,
  imageOwner,               \* per image of the live swapchain: free/app/queued
  vkFrameRenderResources,   \* per frame slot: fence, semaphores, buffers
  vkDescriptorSets,         \* per frame slot: the buffer the set points at
  gpuQueue,                 \* submissions not yet completed by the GPU
  presentQueue,             \* presents whose semaphore wait has not executed
  swapchainStale,           \* history: the driver reported the swapchain stale
  idleSinceSubmit,          \* history: vkDeviceWaitIdle ran after the last submit
  frameLog,                 \* history: the calls of the current frame()
  devices,                  \* createVulkanPhysicalDevice: enumerated devices
  vkPhysicalDevice,         \* Application::vkPhysicalDevice
  VK_ENABLE_VALIDATION_LAYERS,  \* of the build: false under NDEBUG
  installedLayers,          \* the layers vkEnumerateInstanceLayerProperties reports
  createInfo,               \* the VkInstanceCreateInfo handed to vkCreateInstance
  objects,                  \* per Vulkan/GLFW object: "none", "live", "destroyed", ...
  pending,                  \* the calls the current function has still to make
  eventPending,             \* the window system has queued an event for the thread
  details,                  \* createVulkanSwapchain(): VkSwapChainSupportDetails
  swapchainCreateInfo       \* createVulkanSwapchain(): VkSwapchainCreateInfoKHR

windowVars == <<windowSize, shouldClose>>
frameVars == <<currentFrame, frameIndex, imageIndex, acquireResult, presentResult, rcSize>>
swapchainVars == <<vkSwapchain, vkSwapchainImages, vkSwapchainImageViews,
                   vkSwapchainFramebuffers, vkSwapchainExtent, imageOwner>>
deviceVars == <<vkFrameRenderResources, vkDescriptorSets, gpuQueue, presentQueue>>
historyVars == <<swapchainStale, idleSinceSubmit, frameLog, failure>>
mainVars == <<program, pc, exception, exitCode, stderr>>
selectVars == <<devices, vkPhysicalDevice>>
lifeVars == <<VK_ENABLE_VALIDATION_LAYERS, installedLayers, createInfo, objects, pending>>
supportVars == <<details, swapchainCreateInfo>>
otherVars == <<selectVars, lifeVars, eventPending, supportVars>>
vars == <<mainVars, windowVars, frameVars, swapchainVars, deviceVars, historyVars, otherVars>>

\* ------------------------------------------------------------------ bounds

\* The driver creates between 2 and MaxImages swapchain images.
MaxImages == 3
\* Capacity of the modelled graphics queue.
MaxQueue == 3
\* createVulkanPhysicalDevice: at most MaxDevices devices are enumerated.
MaxDevices == 2
\* The recreations of the swapchain followed where each object's lifetime
\* is followed.
MaxRecreations == 2
\* Width of the model's currentFrame where its wrap-around is followed: the
\* counter runs from 0 to 2^CounterBits - 1 and wraps as the uint32_t does at
\* 2^32 - 1.
CounterBits == 6
\* readVulkanSwapChainSupport: at most MaxFormats surface formats are reported.
MaxFormats == 2
\* Width of the model's unsigned words, which stand for uint32_t (the model
\* checker's integers do not reach 2^32); wide enough for WIDTH and HEIGHT.
WordBits == 10

\* ------------------------------------------------------- program constants

WIDTH == 800
HEIGHT == 600
MAX_FRAMES_IN_FLIGHT == 2
\* currentFrame is a uint32_t that is only read modulo MAX_FRAMES_IN_FLIGHT;
\* 2^32 is a multiple of it, so counting modulo it is exact across the wrap.
CounterPeriod == MAX_FRAMES_IN_FLIGHT
\* std::numeric_limits<uint32_t>::max(), at the model's word width
UINT32_MAX == (2 ^ WordBits) - 1

Programs == {"instance", "device", "pipeline", "final"}
Slots == 0 .. (MAX_FRAMES_IN_FLIGHT - 1)

NoException == [kind |-> "none", what |-> <<>>]
NoImage == -1
NoSlot == -1
\* A reference to an object made for a swapchain that has since been replaced.
Outdated == -2
NoSize == [width |-> -1, height |-> -1]

\* A std::runtime_error thrown by value, as every throw of the later programs.
ByValue(what) == [kind |-> "value", what |-> what]
\* `throw new std::runtime_error(...)`: the thrown object is a pointer.
ByPointer(what) == [kind |-> "pointer", what |-> what]

\* VkResult values a driver may return from the frame's calls.
VK_ERRORS == {"VK_ERROR_DEVICE_LOST", "VK_ERROR_SURFACE_LOST_KHR"}
AcquireResults == {"VK_SUCCESS", "VK_SUBOPTIMAL_KHR", "VK_ERROR_OUT_OF_DATE_KHR"} \cup VK_ERRORS
SubmitResults == {"VK_SUCCESS", "VK_ERROR_DEVICE_LOST"}
PresentResults == AcquireResults

\* Framebuffer sizes the window system may give the window ((0,0): minimized).
WindowSizes == {[width |-> 0, height |-> 0],
                [width |-> WIDTH, height |-> HEIGHT],
                [width |-> WIDTH \div 2, height |-> HEIGHT \div 2]}

\* ----------------------------------------------------------------- startup

\* What glfwGetRequiredInstanceExtensions may return.
GlfwExtensionLists == {<<>>, <<"VK_KHR_surface">>, <<"VK_KHR_surface", "VK_KHR_xcb_surface">>}
\* What vkEnumerateInstanceExtensionProperties may report.
InstanceExtensionSets == SUBSET {"VK_KHR_surface", "VK_KHR_xcb_surface", "VK_EXT_debug_utils"}
\* What vkEnumerateInstanceLayerProperties may report.
InstanceLayerSets == SUBSET {"VK_LAYER_KHRONOS_validation"}
VK_VALIDATION_LAYERS == <<"VK_LAYER_KHRONOS_validation">>
CreateInstanceResults == {"VK_SUCCESS", "VK_ERROR_INCOMPATIBLE_DRIVER"}

\* Index of the first name of `required` that `available` lacks, 0 if none:
\* the two nested loops of checkSupportsRequiredExtensions.
FirstMissing(required, available) ==
  LET missing == {i \in 1 .. Len(required) : required[i] \notin available}
  IN IF missing = {} THEN 0 ELSE CHOOSE i \in missing : \A j \in missing : i <= j

\* The extensions the instance is created with.
requiredExtensions(prog, validation, glfwExtensions) ==
  IF prog # "instance" /\ validation
    THEN Append(glfwExtensions, "VK_EXT_debug_utils")
    ELSE glfwExtensions

\* Mutant of createVulkanInstance: the validation layers are not checked
\* against the installed ones.
createVulkanInstance_NoLayerCheck(prog, validation, vulkanLayers, glfwExtensions, vulkanExtensions, result) ==
  LET required == requiredExtensions(prog, validation, glfwExtensions)
      ext == FirstMissing(required, vulkanExtensions)
      Thrown(what) == IF prog = "instance" THEN ByPointer(what) ELSE ByValue(what)
  IN IF ext # 0
       THEN Thrown(<<"Extension", required[ext], "required by GLFW is not supported by Vulkan">>)
     ELSE IF result # "VK_SUCCESS"
       THEN Thrown(<<"Failed to create Vulkan instance">>)
     ELSE NoException

\* The exception createVulkanInstance leaves with, NoException if it returns.
\* part_001 throws with `throw new`, the later programs throw by value.
createVulkanInstance(prog, validation, vulkanLayers, glfwExtensions, vulkanExtensions, result) ==
  LET required == requiredExtensions(prog, validation, glfwExtensions)
      layer == FirstMissing(VK_VALIDATION_LAYERS, vulkanLayers)
      ext == FirstMissing(required, vulkanExtensions)
      Thrown(what) == IF prog = "instance" THEN ByPointer(what) ELSE ByValue(what)
  IN IF prog # "instance" /\ validation /\ layer # 0
       THEN ByValue(<<"Validation layer", VK_VALIDATION_LAYERS[layer], "requested, but not available">>)
     ELSE IF ext # 0
       THEN Thrown(<<"Extension", required[ext], "required by GLFW is not supported by Vulkan">>)
     ELSE IF result # "VK_SUCCESS"
       THEN Thrown(<<"Failed to create Vulkan instance">>)
     ELSE NoException

\* Whether one of createVulkanInstance's steps fails on these inputs, and with
\* what message (history only; independent of how the failure is thrown).
InstanceFailure(prog, validation, vulkanLayers, glfwExtensions, vulkanExtensions, result) ==
  LET required == requiredExtensions(prog, validation, glfwExtensions)
      ext == FirstMissing(required, vulkanExtensions)
  IN IF prog # "instance" /\ validation /\ VK_VALIDATION_LAYERS[1] \notin vulkanLayers
       THEN <<"Validation layer", VK_VALIDATION_LAYERS[1], "requested, but not available">>
     ELSE IF ext # 0
       THEN <<"Extension", required[ext], "required by GLFW is not supported by Vulkan">>
     ELSE IF result # "VK_SUCCESS" THEN <<"Failed to create Vulkan instance">>
     ELSE <<>>

Throw(e) ==
  /\ pc' = "threw"
  /\ exception' = e

Note(step, what) == IF failure = <<>> THEN <<step, what>> ELSE failure

\* initWindow(): glfwInit, then the window at WIDTH x HEIGHT.
InitWindow(glfwInitOk) ==
  /\ pc = "initWindow"
  /\ IF glfwInitOk
       THEN /\ pc' = "createVulkanInstance"
            /\ windowSize' = [width |-> WIDTH, height |-> HEIGHT]
            /\ UNCHANGED <<exception, failure>>
       ELSE /\ Throw(ByValue(<<"Failed to initialize GLFW">>))
            /\ failure' = Note("window", <<"Failed to initialize GLFW">>)
            /\ UNCHANGED windowSize
  /\ UNCHANGED <<program, exitCode, stderr, shouldClose, frameVars,
                 swapchainVars, deviceVars, swapchainStale, idleSinceSubmit, frameLog,
                 otherVars>>

\* initVulkan(), its first step createVulkanInstance().
CreateVulkanInstance(validation, vulkanLayers, glfwExtensions, vulkanExtensions, result) ==
  /\ pc = "createVulkanInstance"
  /\ LET e == createVulkanInstance(program, validation, vulkanLayers, glfwExtensions,
                                   vulkanExtensions, result)
         f == InstanceFailure(program, validation, vulkanLayers, glfwExtensions,
                              vulkanExtensions, result)
     IN /\ IF e = NoException
             THEN /\ pc' = IF program = "instance" THEN "mainLoop" ELSE "initVulkan"
                  /\ UNCHANGED exception
             ELSE Throw(e)
        /\ failure' = IF f = <<>> THEN failure ELSE Note("init", f)
  /\ UNCHANGED <<program, exitCode, stderr, windowVars, frameVars, swapchainVars,
                 deviceVars, swapchainStale, idleSinceSubmit, frameLog, otherVars>>

\* --------------------------------------------------------------- swapchain

ToUint32(x) == x % (UINT32_MAX + 1)

\* std::clamp(v, lo, hi)
Clamp(v, lo, hi) == IF v < lo THEN lo ELSE IF hi < v THEN hi ELSE v

\* Mutant of chooseSwapExtent: the window's size is taken as it is.
chooseSwapExtent_Unclamped(capabilities, window) ==
  IF capabilities.currentExtent.width # UINT32_MAX
    THEN capabilities.currentExtent
    ELSE [width |-> ToUint32(window.width), height |-> ToUint32(window.height)]

\* VkSwapChainSupportDetails::chooseSwapExtent
chooseSwapExtent(capabilities, window) ==
  IF capabilities.currentExtent.width # UINT32_MAX
    THEN capabilities.currentExtent
    ELSE [width |-> Clamp(ToUint32(window.width), capabilities.minImageExtent.width,
                          capabilities.maxImageExtent.width),
          height |-> Clamp(ToUint32(window.height), capabilities.minImageExtent.height,
                           capabilities.maxImageExtent.height)]

\* What vkGetPhysicalDeviceSurfaceCapabilitiesKHR may report for a window of
\* this size: the surface follows the window, or leaves the extent to the
\* swapchain (currentExtent = 0xFFFFFFFF) within limits that admit the
\* window's sizes.
SurfaceCapabilities(size) ==
  {[currentExtent |-> size, minImageExtent |-> size, maxImageExtent |-> size],
   [currentExtent |-> [width |-> UINT32_MAX, height |-> UINT32_MAX],
    minImageExtent |-> [width |-> 0, height |-> 0],
    maxImageExtent |-> [width |-> WIDTH, height |-> HEIGHT]]}

ImageCounts == 2 .. MaxImages

\* A frame slot as createVulkanFrameRenderResources leaves it: the fence is
\* created signalled, the semaphores unsignalled, the command buffer empty,
\* the mapped uniform memory unwritten.
NewFrameRenderResources ==
  [commandBuffer |-> [state |-> "initial", framebuffer |-> NoImage, commands |-> <<>>],
   imageAvailableSemaphore |-> FALSE,
   renderFinishedSemaphore |-> FALSE,
   inFlightFence |-> TRUE,
   uniformBufferMapped |-> "unwritten"]

\* createVulkanSwapchain, createVulkanImageViews (and, in the final program,
\* createVulkanFramebuffers): n images, all free, at the chosen extent.  The
\* image vector is resized to the driver's count, the view vector to the
\* image vector's size, the framebuffer vector to the view vector's size.
CreateSwapchainObjects(n, capabilities, withFramebuffers) ==
  /\ vkSwapchain' = "live"
  /\ vkSwapchainImages' = n
  /\ vkSwapchainImageViews' = [size |-> vkSwapchainImages', alive |-> TRUE]
  /\ vkSwapchainFramebuffers' = IF withFramebuffers
                                  THEN [size |-> vkSwapchainImageViews'.size, alive |-> TRUE]
                                  ELSE vkSwapchainFramebuffers
  /\ vkSwapchainExtent' = chooseSwapExtent(capabilities, windowSize)
  /\ imageOwner' = [i \in 0 .. (n - 1) |-> "free"]

\* cleanupVulkanSwapchain: framebuffers, image views and the swapchain are
\* destroyed; the vectors keep their sizes.
DestroySwapchainObjects ==
  /\ vkSwapchain' = "destroyed"
  /\ vkSwapchainImageViews' = [vkSwapchainImageViews EXCEPT !.alive = FALSE]
  /\ vkSwapchainFramebuffers' = [vkSwapchainFramebuffers EXCEPT !.alive = FALSE]
  /\ imageOwner' = <<>>
  /\ UNCHANGED <<vkSwapchainImages, vkSwapchainExtent>>

\* initVulkan() after createVulkanInstance(): the remaining creation steps,
\* any of which may throw (by value).
InitVulkan(ok, n, capabilities) ==
  /\ pc = "initVulkan"
  /\ IF ok
       THEN /\ pc' = "mainLoop"
            /\ UNCHANGED <<exception, failure>>
            /\ IF program \in {"pipeline", "final"}
                 THEN CreateSwapchainObjects(n, capabilities, program = "final")
                 ELSE UNCHANGED swapchainVars
            /\ IF program = "final"
                 THEN /\ vkFrameRenderResources' = [s \in Slots |-> NewFrameRenderResources]
                      /\ vkDescriptorSets' = [s \in Slots |-> [buffer |-> NoSlot]]
                 ELSE UNCHANGED <<vkFrameRenderResources, vkDescriptorSets>>
       ELSE /\ Throw(ByValue(<<"Failed to find suitable physical device">>))
            /\ failure' = Note("init", <<"Failed to find suitable physical device">>)
            /\ UNCHANGED <<swapchainVars, vkFrameRenderResources, vkDescriptorSets>>
  /\ UNCHANGED <<program, exitCode, stderr, windowVars, frameVars, gpuQueue, presentQueue,
                 swapchainStale, idleSinceSubmit, frameLog, otherVars>>

\* --------------------------------------------------------------- main loop


\* mainLoop(): the loop condition.
MainLoop ==
  /\ pc = "mainLoop"
  /\ pc' = IF ~shouldClose THEN "glfwPollEvents"
           ELSE IF program = "final" THEN "vkDeviceWaitIdle" ELSE "cleanup"
  /\ UNCHANGED <<program, exception, exitCode, stderr, windowVars, frameVars, swapchainVars,
                 deviceVars, historyVars, otherVars>>

\* glfwPollEvents(): the queued events are processed; a close request among
\* them sets the window's close flag.
PollEvents(close) ==
  /\ pc = "glfwPollEvents"
  /\ shouldClose' = (shouldClose \/ close)
  /\ pc' = IF program = "final" THEN "frame" ELSE "mainLoop"
  /\ UNCHANGED <<program, exception, exitCode, stderr, windowSize, frameVars, swapchainVars,
                 deviceVars, historyVars, otherVars>>

\* The positions at which the final program's window exists and its loop runs.
LoopPositions ==
  {"mainLoop", "glfwPollEvents", "frame", "vkWaitForFences", "vkAcquireNextImageKHR",
   "acquireResult", "updateUniformBuffer", "vkResetCommandBuffer",
   "recordVulkanCommandBuffer", "vkResetFences", "vkQueueSubmit", "vkQueuePresentKHR",
   "presentResult", "recreateVulkanSwapchain", "recreate.while", "recreate.getSize",
   "recreate.waitEvents", "recreate.waitIdle", "recreate.cleanup", "recreate.create"}

\* The window system changes the framebuffer size (resize, minimize, restore).
WindowResize(size) ==
  /\ program = "final"
  /\ pc \in LoopPositions
  /\ size # windowSize
  /\ windowSize' = size
  /\ UNCHANGED <<mainVars, shouldClose, frameVars, swapchainVars, deviceVars, historyVars,
                 otherVars>>

\* ------------------------------------------------------------------ frame()

\* History: frame() made this call for its slot, on this image (NoImage if
\* the call names none).
Log(call, image) ==
  frameLog' = Append(frameLog, [call |-> call, slot |-> frameIndex, image |-> image])

\* frame() returns to mainLoop(); its locals end.
ReturnFromFrame ==
  /\ pc' = "mainLoop"
  /\ frameIndex' = NoSlot
  /\ imageIndex' = NoImage
  /\ acquireResult' = "none"
  /\ presentResult' = "none"
  /\ rcSize' = NoSize
  /\ frameLog' = <<>>

\* Mutant of BeginFrame: frame() goes straight to the acquisition.
BeginFrame_NoWait ==
  /\ pc = "frame"
  /\ frameIndex' = currentFrame % MAX_FRAMES_IN_FLIGHT
  /\ currentFrame' = (currentFrame + 1) % CounterPeriod
  /\ frameLog' = <<>>
  /\ pc' = "vkAcquireNextImageKHR"
  /\ UNCHANGED <<program, exception, exitCode, stderr, windowVars, imageIndex,
                 acquireResult, presentResult, rcSize, swapchainVars, deviceVars,
                 swapchainStale, idleSinceSubmit, failure, otherVars>>

\* frameIndex = currentFrame % MAX_FRAMES_IN_FLIGHT; currentFrame++
BeginFrame ==
  /\ pc = "frame"
  /\ frameIndex' = currentFrame % MAX_FRAMES_IN_FLIGHT
  /\ currentFrame' = (currentFrame + 1) % CounterPeriod
  /\ frameLog' = <<>>
  /\ pc' = "vkWaitForFences"
  /\ UNCHANGED <<program, exception, exitCode, stderr, windowVars, imageIndex,
                 acquireResult, presentResult, rcSize, swapchainVars, deviceVars,
                 swapchainStale, idleSinceSubmit, failure, otherVars>>

\* Mutant of WaitForFences: a zero timeout, the call returns at once.
WaitForFences_NoBlock ==
  /\ pc = "vkWaitForFences"
  /\ frameLog' = Append(frameLog, [call |-> "vkWaitForFences", slot |-> frameIndex,
                                   image |-> NoImage])
  /\ pc' = "vkAcquireNextImageKHR"
  /\ UNCHANGED <<program, exception, exitCode, stderr, windowVars, frameVars, swapchainVars,
                 deviceVars, swapchainStale, idleSinceSubmit, failure, otherVars>>

\* Mutant of WaitForFences: the fence is reset as soon as the wait returns,
\* before the acquisition that may leave frame() early.
WaitForFences_ThenReset ==
  /\ pc = "vkWaitForFences"
  /\ vkFrameRenderResources[frameIndex].inFlightFence
  /\ vkFrameRenderResources' =
       [vkFrameRenderResources EXCEPT ![frameIndex].inFlightFence = FALSE]
  /\ frameLog' = Append(frameLog, [call |-> "vkWaitForFences", slot |-> frameIndex,
                                   image |-> NoImage])
  /\ pc' = "vkAcquireNextImageKHR"
  /\ UNCHANGED <<program, exception, exitCode, stderr, windowVars, frameVars, swapchainVars,
                 vkDescriptorSets, gpuQueue, presentQueue, swapchainStale, idleSinceSubmit,
                 failure, otherVars>>

\* vkWaitForFences(inFlightFence, UINT64_MAX): blocks until the fence is signalled.
WaitForFences ==
  /\ pc = "vkWaitForFences"
  /\ vkFrameRenderResources[frameIndex].inFlightFence
  /\ Log("vkWaitForFences", NoImage)
  /\ pc' = "vkAcquireNextImageKHR"
  /\ UNCHANGED <<program, exception, exitCode, stderr, windowVars, frameVars, swapchainVars,
                 deviceVars, swapchainStale, idleSinceSubmit, failure, otherVars>>

\* vkAcquireNextImageKHR(vkSwapchain, UINT64_MAX, imageAvailableSemaphore):
\* on VK_SUCCESS and VK_SUBOPTIMAL_KHR a free image is handed to the
\* application and the semaphore is signalled; otherwise nothing is acquired.
AcquireNextImage(result, image) ==
  /\ pc = "vkAcquireNextImageKHR"
  /\ IF result \in {"VK_SUCCESS", "VK_SUBOPTIMAL_KHR"}
       THEN /\ image \in DOMAIN imageOwner
            /\ imageOwner[image] = "free"
            /\ imageOwner' = [imageOwner EXCEPT ![image] = "app"]
            /\ vkFrameRenderResources' =
                 [vkFrameRenderResources EXCEPT ![frameIndex].imageAvailableSemaphore = TRUE]
       ELSE /\ image = NoImage
            /\ UNCHANGED <<imageOwner, vkFrameRenderResources>>
  /\ imageIndex' = image
  /\ acquireResult' = result
  /\ swapchainStale' = (swapchainStale \/ result = "VK_ERROR_OUT_OF_DATE_KHR")
  /\ failure' = IF result \in VK_ERRORS
                  THEN Note("frame", <<"Failed to acquire swapchain image">>)
                  ELSE failure
  /\ Log("vkAcquireNextImageKHR", image)
  /\ pc' = "acquireResult"
  /\ UNCHANGED <<program, exception, exitCode, stderr, windowVars, currentFrame, frameIndex,
                 presentResult, rcSize, vkSwapchain, vkSwapchainImages,
                 vkSwapchainImageViews, vkSwapchainFramebuffers, vkSwapchainExtent,
                 vkDescriptorSets, gpuQueue, presentQueue, idleSinceSubmit, otherVars>>

\* Mutant of HandleAcquireResult: VK_SUBOPTIMAL_KHR recreates the swapchain
\* as VK_ERROR_OUT_OF_DATE_KHR does.
HandleAcquireResult_SuboptimalRecreates ==
  /\ pc = "acquireResult"
  /\ IF acquireResult \in {"VK_ERROR_OUT_OF_DATE_KHR", "VK_SUBOPTIMAL_KHR"}
       THEN /\ pc' = "recreateVulkanSwapchain"
            /\ UNCHANGED exception
       ELSE IF acquireResult # "VK_SUCCESS"
         THEN Throw(ByValue(<<"Failed to acquire swapchain image">>))
         ELSE /\ pc' = "updateUniformBuffer"
              /\ UNCHANGED exception
  /\ acquireResult' = "none"
  /\ UNCHANGED <<program, exitCode, stderr, windowVars, currentFrame, frameIndex, imageIndex,
                 presentResult, rcSize, swapchainVars, deviceVars, historyVars, otherVars>>

\* Mutant of HandleAcquireResult: the slot's fence is reset before the early
\* return.
HandleAcquireResult_ResetsFence ==
  /\ pc = "acquireResult"
  /\ IF acquireResult = "VK_ERROR_OUT_OF_DATE_KHR"
       THEN /\ pc' = "recreateVulkanSwapchain"
            /\ vkFrameRenderResources' =
                 [vkFrameRenderResources EXCEPT ![frameIndex].inFlightFence = FALSE]
            /\ UNCHANGED exception
       ELSE /\ IF acquireResult # "VK_SUCCESS" /\ acquireResult # "VK_SUBOPTIMAL_KHR"
                 THEN Throw(ByValue(<<"Failed to acquire swapchain image">>))
                 ELSE /\ pc' = "updateUniformBuffer"
                      /\ UNCHANGED exception
            /\ UNCHANGED vkFrameRenderResources
  /\ acquireResult' = "none"
  /\ UNCHANGED <<program, exitCode, stderr, windowVars, currentFrame, frameIndex, imageIndex,
                 presentResult, rcSize, swapchainVars, vkDescriptorSets, gpuQueue,
                 presentQueue, historyVars, otherVars>>

\* The two tests of acquireResult, which is not read after them.
HandleAcquireResult ==
  /\ pc = "acquireResult"
  /\ IF acquireResult = "VK_ERROR_OUT_OF_DATE_KHR"
       THEN /\ pc' = "recreateVulkanSwapchain"
            /\ UNCHANGED exception
       ELSE IF acquireResult # "VK_SUCCESS" /\ acquireResult # "VK_SUBOPTIMAL_KHR"
         THEN Throw(ByValue(<<"Failed to acquire swapchain image">>))
         ELSE /\ pc' = "updateUniformBuffer"
              /\ UNCHANGED exception
  /\ acquireResult' = "none"
  /\ UNCHANGED <<program, exitCode, stderr, windowVars, currentFrame, frameIndex, imageIndex,
                 presentResult, rcSize, swapchainVars, deviceVars, historyVars, otherVars>>

\* updateUniformBuffer(frameIndex): the memcpy into the slot's mapped memory.
\* Of the buffer's contents the model keeps that they have been written.
UpdateUniformBuffer ==
  /\ pc = "updateUniformBuffer"
  /\ vkFrameRenderResources' =
       [vkFrameRenderResources EXCEPT ![frameIndex].uniformBufferMapped =
          "written"]
  /\ Log("updateUniformBuffer", NoImage)
  /\ pc' = "vkResetCommandBuffer"
  /\ UNCHANGED <<program, exception, exitCode, stderr, windowVars, frameVars, swapchainVars,
                 vkDescriptorSets, gpuQueue, presentQueue, swapchainStale, idleSinceSubmit,
                 failure, otherVars>>

\* vkResetCommandBuffer(frameResources.commandBuffer, 0)
ResetCommandBuffer ==
  /\ pc = "vkResetCommandBuffer"
  /\ vkFrameRenderResources' =
       [vkFrameRenderResources EXCEPT ![frameIndex].commandBuffer =
          NewFrameRenderResources.commandBuffer]
  /\ Log("vkResetCommandBuffer", NoImage)
  /\ pc' = "recordVulkanCommandBuffer"
  /\ UNCHANGED <<program, exception, exitCode, stderr, windowVars, frameVars, swapchainVars,
                 vkDescriptorSets, gpuQueue, presentQueue, swapchainStale, idleSinceSubmit,
                 failure, otherVars>>

\* The commands recordVulkanCommandBuffer records, in order.
RecordedCommands ==
  <<"vkCmdBeginRenderPass", "vkCmdBindPipeline", "vkCmdBindVertexBuffers",
    "vkCmdBindIndexBuffer", "vkCmdSetViewport", "vkCmdSetScissor", "vkCmdDrawIndexed",
    "vkCmdEndRenderPass">>

\* recordVulkanCommandBuffer(commandBuffer, imageIndex): the render pass
\* targets vkSwapchainFramebuffers[imageIndex]; vkBeginCommandBuffer or
\* vkEndCommandBuffer may fail.
RecordCommandBuffer(ok) ==
  /\ pc = "recordVulkanCommandBuffer"
  /\ IF ok
       THEN /\ vkFrameRenderResources' =
                 [vkFrameRenderResources EXCEPT ![frameIndex].commandBuffer =
                    [state |-> "executable", framebuffer |-> imageIndex,
                     commands |-> RecordedCommands]]
            /\ pc' = "vkResetFences"
            /\ UNCHANGED <<exception, failure>>
       ELSE /\ Throw(ByValue(<<"Failed to record command buffer">>))
            /\ failure' = Note("frame", <<"Failed to record command buffer">>)
            /\ UNCHANGED vkFrameRenderResources
  /\ Log("recordVulkanCommandBuffer", imageIndex)
  /\ UNCHANGED <<program, exitCode, stderr, windowVars, frameVars, swapchainVars,
                 vkDescriptorSets, gpuQueue, presentQueue, swapchainStale, idleSinceSubmit,
                 otherVars>>

\* Mutant of ResetFences: the fence is left signalled.
ResetFences_Missing ==
  /\ pc = "vkResetFences"
  /\ frameLog' = Append(frameLog, [call |-> "vkResetFences", slot |-> frameIndex,
                                   image |-> NoImage])
  /\ pc' = "vkQueueSubmit"
  /\ UNCHANGED <<program, exception, exitCode, stderr, windowVars, frameVars, swapchainVars,
                 deviceVars, swapchainStale, idleSinceSubmit, failure, otherVars>>

\* vkResetFences(inFlightFence)
ResetFences ==
  /\ pc = "vkResetFences"
  /\ vkFrameRenderResources' =
       [vkFrameRenderResources EXCEPT ![frameIndex].inFlightFence = FALSE]
  /\ Log("vkResetFences", NoImage)
  /\ pc' = "vkQueueSubmit"
  /\ UNCHANGED <<program, exception, exitCode, stderr, windowVars, frameVars, swapchainVars,
                 vkDescriptorSets, gpuQueue, presentQueue, swapchainStale, idleSinceSubmit,
                 failure, otherVars>>

\* Mutant of QueueSubmit: the VkResult of vkQueueSubmit is not tested.
QueueSubmit_Unchecked(result) ==
  /\ pc = "vkQueueSubmit"
  /\ IF result = "VK_SUCCESS"
       THEN /\ Len(gpuQueue) < MaxQueue
            /\ gpuQueue' = Append(gpuQueue,
                 [slot |-> frameIndex,
                  framebuffer |-> vkFrameRenderResources[frameIndex].commandBuffer.framebuffer])
            /\ idleSinceSubmit' = FALSE
            /\ UNCHANGED failure
       ELSE /\ failure' = IF failure = <<>>
                             THEN <<"frame", <<"Failed to submit draw command buffer">>>>
                             ELSE failure
            /\ UNCHANGED <<gpuQueue, idleSinceSubmit>>
  /\ pc' = "vkQueuePresentKHR"
  /\ frameLog' = Append(frameLog, [call |-> "vkQueueSubmit", slot |-> frameIndex,
         image |-> vkFrameRenderResources[frameIndex].commandBuffer.framebuffer])
  /\ UNCHANGED <<program, exception, exitCode, stderr, windowVars, frameVars, swapchainVars,
                 vkFrameRenderResources, vkDescriptorSets, presentQueue, swapchainStale,
                 otherVars>>

\* vkQueueSubmit(vkGraphicsQueue, submitInfo, inFlightFence): the slot's
\* command buffer, waiting on imageAvailableSemaphore, signalling
\* renderFinishedSemaphore and the fence.
QueueSubmit(result) ==
  /\ pc = "vkQueueSubmit"
  /\ IF result = "VK_SUCCESS"
       THEN /\ Len(gpuQueue) < MaxQueue
            /\ gpuQueue' = Append(gpuQueue,
                 [slot |-> frameIndex,
                  framebuffer |-> vkFrameRenderResources[frameIndex].commandBuffer.framebuffer])
            /\ idleSinceSubmit' = FALSE
            /\ pc' = "vkQueuePresentKHR"
            /\ UNCHANGED <<exception, failure>>
       ELSE /\ Throw(ByValue(<<"Failed to submit draw command buffer">>))
            /\ failure' = Note("frame", <<"Failed to submit draw command buffer">>)
            /\ UNCHANGED <<gpuQueue, idleSinceSubmit>>
  /\ Log("vkQueueSubmit", vkFrameRenderResources[frameIndex].commandBuffer.framebuffer)
  /\ UNCHANGED <<program, exitCode, stderr, windowVars, frameVars, swapchainVars,
                 vkFrameRenderResources, vkDescriptorSets, presentQueue, swapchainStale,
                 otherVars>>

\* vkQueuePresentKHR(vkPresentQueue, presentInfo): waits on
\* renderFinishedSemaphore, presents image imageIndex of vkSwapchain.  On
\* VK_ERROR_OUT_OF_DATE_KHR the semaphore wait is queued but no image is.
QueuePresent(result) ==
  /\ pc = "vkQueuePresentKHR"
  /\ IF result \in {"VK_SUCCESS", "VK_SUBOPTIMAL_KHR"}
       THEN /\ presentQueue' = Append(presentQueue,
                 [slot |-> frameIndex, image |-> imageIndex])
            /\ imageOwner' = [imageOwner EXCEPT ![imageIndex] = "queued"]
       ELSE IF result = "VK_ERROR_OUT_OF_DATE_KHR"
         THEN /\ presentQueue' = Append(presentQueue,
                   [slot |-> frameIndex, image |-> NoImage])
              /\ UNCHANGED imageOwner
         ELSE UNCHANGED <<presentQueue, imageOwner>>
  /\ presentResult' = result
  /\ swapchainStale' =
       (swapchainStale \/ result \in {"VK_ERROR_OUT_OF_DATE_KHR", "VK_SUBOPTIMAL_KHR"})
  /\ failure' = IF result \in VK_ERRORS
                  THEN Note("frame", <<"Failed to present swapchain image">>)
                  ELSE failure
  /\ Log("vkQueuePresentKHR", imageIndex)
  /\ pc' = "presentResult"
  /\ UNCHANGED <<program, exception, exitCode, stderr, windowVars, currentFrame, frameIndex,
                 imageIndex, acquireResult, rcSize, vkSwapchain, vkSwapchainImages,
                 vkSwapchainImageViews, vkSwapchainFramebuffers, vkSwapchainExtent,
                 vkFrameRenderResources, vkDescriptorSets, gpuQueue, idleSinceSubmit,
                 otherVars>>

\* Mutant of HandlePresentResult: VK_SUBOPTIMAL_KHR counts as success, as it
\* does after the acquisition.
HandlePresentResult_SuboptimalOk ==
  /\ pc = "presentResult"
  /\ IF presentResult = "VK_ERROR_OUT_OF_DATE_KHR"
       THEN /\ pc' = "recreateVulkanSwapchain"
            /\ presentResult' = "none"
            /\ UNCHANGED <<exception, currentFrame, frameIndex, imageIndex, acquireResult,
                           rcSize, frameLog>>
       ELSE IF presentResult # "VK_SUCCESS" /\ presentResult # "VK_SUBOPTIMAL_KHR"
         THEN /\ pc' = "threw"
              /\ exception' = [kind |-> "value", what |-> <<"Failed to present swapchain image">>]
              /\ presentResult' = "none"
              /\ UNCHANGED <<currentFrame, frameIndex, imageIndex, acquireResult, rcSize,
                             frameLog>>
         ELSE /\ pc' = "mainLoop"
              /\ frameIndex' = NoSlot
              /\ imageIndex' = NoImage
              /\ acquireResult' = "none"
              /\ presentResult' = "none"
              /\ rcSize' = NoSize
              /\ frameLog' = <<>>
              /\ UNCHANGED <<exception, currentFrame>>
  /\ UNCHANGED <<program, exitCode, stderr, windowVars, swapchainVars, deviceVars,
                 swapchainStale, idleSinceSubmit, failure, otherVars>>

\* The tests of presentResult, which is not read after them, and the end of
\* frame().
HandlePresentResult ==
  /\ pc = "presentResult"
  /\ IF presentResult = "VK_ERROR_OUT_OF_DATE_KHR" \/ presentResult = "VK_SUBOPTIMAL_KHR"
       THEN /\ pc' = "recreateVulkanSwapchain"
            /\ presentResult' = "none"
            /\ UNCHANGED <<exception, currentFrame, frameIndex, imageIndex, acquireResult,
                           rcSize, frameLog>>
       ELSE IF presentResult # "VK_SUCCESS"
         THEN /\ Throw(ByValue(<<"Failed to present swapchain image">>))
              /\ presentResult' = "none"
              /\ UNCHANGED <<currentFrame, frameIndex, imageIndex, acquireResult, rcSize,
                             frameLog>>
         ELSE /\ ReturnFromFrame
              /\ UNCHANGED <<exception, currentFrame>>
  /\ UNCHANGED <<program, exitCode, stderr, windowVars, swapchainVars, deviceVars,
                 swapchainStale, idleSinceSubmit, failure, otherVars>>

\* ------------------------------------------------ recreateVulkanSwapchain()

IsZero(size) == size.width = 0 \/ size.height = 0

\* int width = 0, height = 0; glfwGetFramebufferSize(&width, &height)
RecreateEnter ==
  /\ pc = "recreateVulkanSwapchain"
  /\ rcSize' = windowSize
  /\ pc' = "recreate.while"
  /\ UNCHANGED <<program, exception, exitCode, stderr, windowVars, currentFrame, frameIndex,
                 imageIndex, acquireResult, presentResult, swapchainVars, deviceVars,
                 historyVars, otherVars>>

\* while (width == 0 || height == 0)
RecreateWhile ==
  /\ pc = "recreate.while"
  /\ pc' = IF IsZero(rcSize) THEN "recreate.getSize" ELSE "recreate.waitIdle"
  /\ UNCHANGED <<program, exception, exitCode, stderr, windowVars, frameVars, swapchainVars,
                 deviceVars, historyVars, otherVars>>

\* In the loop: glfwGetFramebufferSize(&width, &height)
RecreateGetSize ==
  /\ pc = "recreate.getSize"
  /\ rcSize' = windowSize
  /\ pc' = "recreate.waitEvents"
  /\ UNCHANGED <<program, exception, exitCode, stderr, windowVars, currentFrame, frameIndex,
                 imageIndex, acquireResult, presentResult, swapchainVars, deviceVars,
                 historyVars, otherVars>>

\* In the loop: glfwWaitEvents() returns once the window system has queued an
\* event of any kind, and processes the queued events.
RecreateWaitEvents(close) ==
  /\ pc = "recreate.waitEvents"
  /\ shouldClose' = (shouldClose \/ close)
  /\ pc' = "recreate.while"
  /\ UNCHANGED <<program, exception, exitCode, stderr, windowSize, frameVars, swapchainVars,
                 deviceVars, historyVars, otherVars>>

\* vkDeviceWaitIdle(vkDevice): blocks until every queue has executed all the
\* operations handed to it.
DeviceIdle == gpuQueue = <<>> /\ presentQueue = <<>>

\* Mutant of RecreateWaitIdle: the swapchain is recreated without
\* vkDeviceWaitIdle.
RecreateWaitIdle_Missing ==
  /\ pc = "recreate.waitIdle"
  /\ pc' = "recreate.cleanup"
  /\ UNCHANGED <<program, exception, exitCode, stderr, windowVars, frameVars, swapchainVars,
                 deviceVars, historyVars, otherVars>>

RecreateWaitIdle ==
  /\ pc = "recreate.waitIdle"
  /\ DeviceIdle
  /\ idleSinceSubmit' = TRUE
  /\ pc' = "recreate.cleanup"
  /\ UNCHANGED <<program, exception, exitCode, stderr, windowVars, frameVars, swapchainVars,
                 deviceVars, swapchainStale, frameLog, failure, otherVars>>

\* cleanupVulkanSwapchain()
RecreateCleanup ==
  /\ pc = "recreate.cleanup"
  /\ DestroySwapchainObjects
  /\ pc' = "recreate.create"
  /\ UNCHANGED <<program, exception, exitCode, stderr, windowVars, frameVars, deviceVars,
                 historyVars, otherVars>>


\* Mutant of RecreateCreate: createVulkanFramebuffers() is not called again.
RecreateCreate_NoFramebuffers(ok, n, capabilities) ==
  /\ pc = "recreate.create"
  /\ IF ok
       THEN /\ CreateSwapchainObjects(n, capabilities, FALSE)
            /\ vkFrameRenderResources' =
                 [s \in DOMAIN vkFrameRenderResources |->
                    [vkFrameRenderResources[s] EXCEPT !.commandBuffer.framebuffer =
                       IF @ = NoImage THEN @ ELSE Outdated]]
            /\ gpuQueue' = [i \in DOMAIN gpuQueue |->
                             [gpuQueue[i] EXCEPT !.framebuffer = Outdated]]
            /\ presentQueue' = [i \in DOMAIN presentQueue |->
                                 [presentQueue[i] EXCEPT !.image =
                                    IF @ = NoImage THEN @ ELSE Outdated]]
            /\ swapchainStale' = FALSE
            /\ ReturnFromFrame
            /\ UNCHANGED <<exception, failure, currentFrame>>
       ELSE /\ Throw(ByValue(<<"Failed to create swap chain">>))
            /\ failure' = Note("frame", <<"Failed to create swap chain">>)
            /\ UNCHANGED <<swapchainVars, vkFrameRenderResources, gpuQueue, presentQueue,
                           swapchainStale, frameVars, frameLog>>
  /\ UNCHANGED <<program, exitCode, stderr, windowVars, vkDescriptorSets, idleSinceSubmit,
                 otherVars>>

\* createVulkanSwapchain(); createVulkanImageViews(); createVulkanFramebuffers()
\* and the return of recreateVulkanSwapchain() and of frame().
RecreateCreate(ok, n, capabilities) ==
  /\ pc = "recreate.create"
  /\ IF ok
       THEN /\ CreateSwapchainObjects(n, capabilities, TRUE)
            /\ vkFrameRenderResources' =
                 [s \in DOMAIN vkFrameRenderResources |->
                    [vkFrameRenderResources[s] EXCEPT !.commandBuffer.framebuffer =
                       IF @ = NoImage THEN @ ELSE Outdated]]
            /\ gpuQueue' = [i \in DOMAIN gpuQueue |->
                             [gpuQueue[i] EXCEPT !.framebuffer = Outdated]]
            /\ presentQueue' = [i \in DOMAIN presentQueue |->
                                 [presentQueue[i] EXCEPT !.image =
                                    IF @ = NoImage THEN @ ELSE Outdated]]
            /\ swapchainStale' = FALSE
            /\ ReturnFromFrame
            /\ UNCHANGED <<exception, failure, currentFrame>>
       ELSE /\ Throw(ByValue(<<"Failed to create swap chain">>))
            /\ failure' = Note("frame", <<"Failed to create swap chain">>)
            /\ UNCHANGED <<swapchainVars, vkFrameRenderResources, gpuQueue, presentQueue,
                           swapchainStale, frameVars, frameLog>>
  /\ UNCHANGED <<program, exitCode, stderr, windowVars, vkDescriptorSets, idleSinceSubmit,
                 otherVars>>

\* ----------------------------------------- the GPU, the presentation engine

\* The graphics queue completes its oldest submission: the wait on
\* imageAvailableSemaphore has executed, renderFinishedSemaphore and the
\* fence are signalled.
GpuComplete ==
  /\ gpuQueue # <<>>
  /\ LET s == Head(gpuQueue)
     IN /\ vkFrameRenderResources[s.slot].imageAvailableSemaphore
        /\ vkFrameRenderResources' =
             [vkFrameRenderResources EXCEPT ![s.slot].imageAvailableSemaphore = FALSE,
                                            ![s.slot].renderFinishedSemaphore = TRUE,
                                            ![s.slot].inFlightFence = TRUE]
  /\ gpuQueue' = Tail(gpuQueue)
  /\ UNCHANGED <<mainVars, windowVars, frameVars, swapchainVars, vkDescriptorSets,
                 presentQueue, historyVars, otherVars>>

\* The present queue executes its oldest present: the wait on
\* renderFinishedSemaphore consumes the signal, and the image goes back to
\* the presentation engine, from which it can be acquired again.
PresentComplete ==
  /\ presentQueue # <<>>
  /\ LET p == Head(presentQueue)
     IN /\ vkFrameRenderResources[p.slot].renderFinishedSemaphore
        /\ vkFrameRenderResources' =
             [vkFrameRenderResources EXCEPT ![p.slot].renderFinishedSemaphore = FALSE]
        /\ imageOwner' = IF p.image \in DOMAIN imageOwner
                           THEN [imageOwner EXCEPT ![p.image] = "free"]
                           ELSE imageOwner
  /\ presentQueue' = Tail(presentQueue)
  /\ UNCHANGED <<mainVars, windowVars, frameVars, vkSwapchain, vkSwapchainImages,
                 vkSwapchainImageViews, vkSwapchainFramebuffers, vkSwapchainExtent,
                 vkDescriptorSets, gpuQueue, historyVars, otherVars>>

\* ------------------------------------------------------------ cleanup, main

\* mainLoop(): vkDeviceWaitIdle(vkDevice) after the loop.
MainWaitIdle ==
  /\ pc = "vkDeviceWaitIdle"
  /\ DeviceIdle
  /\ idleSinceSubmit' = TRUE
  /\ pc' = "cleanup"
  /\ UNCHANGED <<program, exception, exitCode, stderr, windowVars, frameVars, swapchainVars,
                 deviceVars, swapchainStale, frameLog, failure, otherVars>>

\* cleanup(): cleanupVulkan() (which starts with cleanupVulkanSwapchain() in
\* the final program) and cleanupGlfw(); run() returns.
Cleanup ==
  /\ pc = "cleanup"
  /\ IF program \in {"pipeline", "final"}
       THEN DestroySwapchainObjects
       ELSE UNCHANGED swapchainVars
  /\ vkFrameRenderResources' = <<>>
  /\ vkDescriptorSets' = <<>>
  /\ pc' = "returned"
  /\ UNCHANGED <<program, exception, exitCode, stderr, windowVars, frameVars, gpuQueue,
                 presentQueue, historyVars, otherVars>>

\* main(): app.run() returned; return EXIT_SUCCESS.
MainReturn ==
  /\ pc = "returned"
  /\ exitCode' = "EXIT_SUCCESS"
  /\ pc' = "exited"
  /\ UNCHANGED <<program, exception, stderr, windowVars, frameVars, swapchainVars,
                 deviceVars, historyVars, otherVars>>

\* main(): an exception left app.run().  `catch (const std::exception& e)`
\* matches an exception object thrown by value; a thrown pointer matches no
\* handler, and std::terminate ends the program.
MainCatch ==
  /\ pc = "threw"
  /\ IF exception.kind = "value"
       THEN /\ stderr' = exception.what
            /\ exitCode' = "EXIT_FAILURE"
            /\ pc' = "exited"
       ELSE /\ exitCode' = "terminate"
            /\ pc' = "terminated"
            /\ UNCHANGED stderr
  /\ exception' = NoException
  /\ UNCHANGED <<program, windowVars, frameVars, swapchainVars, deviceVars, historyVars,
                 otherVars>>

\* ------------------------------------------------------------ specification

\* The frame loop does not depend on the instance's layers or on the order in
\* which the objects were created: Spec leaves them out (the validation flag
\* of the build is an input of CreateVulkanInstance there), and LifeSpec
\* below follows them call by call.
NoCreateInfo == [enabledLayerCount |-> 0, pNext |-> "nullptr"]
\* No surface support has been read and no swapchain create info filled in.
NoSwapchainSupport == details = <<>> /\ swapchainCreateInfo = <<>>
NoLifecycle ==
  /\ VK_ENABLE_VALIDATION_LAYERS = FALSE
  /\ installedLayers = {}
  /\ createInfo = NoCreateInfo
  /\ objects = <<>>
  /\ pending = <<>>

Init ==
  /\ program \in Programs
  /\ pc = "initWindow"
  /\ exception = NoException
  /\ exitCode = "none"
  /\ stderr = <<>>
  /\ failure = <<>>
  /\ windowSize = NoSize
  /\ shouldClose = FALSE
  /\ currentFrame = 0
  /\ frameIndex = NoSlot
  /\ imageIndex = NoImage
  /\ acquireResult = "none"
  /\ presentResult = "none"
  /\ rcSize = NoSize
  /\ vkSwapchain = "VK_NULL_HANDLE"
  /\ vkSwapchainImages = 0
  /\ vkSwapchainImageViews = [size |-> 0, alive |-> FALSE]
  /\ vkSwapchainFramebuffers = [size |-> 0, alive |-> FALSE]
  /\ vkSwapchainExtent = [width |-> 0, height |-> 0]
  /\ imageOwner = <<>>
  /\ vkFrameRenderResources = <<>>
  /\ vkDescriptorSets = <<>>
  /\ gpuQueue = <<>>
  /\ presentQueue = <<>>
  /\ swapchainStale = FALSE
  /\ idleSinceSubmit = FALSE
  /\ frameLog = <<>>
  /\ devices = <<>>
  /\ vkPhysicalDevice = 0
  /\ NoLifecycle
  /\ eventPending = FALSE
  /\ NoSwapchainSupport

Host ==
  \/ \E ok \in BOOLEAN : InitWindow(ok)
  \/ \E validation \in BOOLEAN, layers \in InstanceLayerSets, glfw \in GlfwExtensionLists,
        exts \in InstanceExtensionSets, result \in CreateInstanceResults :
       CreateVulkanInstance(validation, layers, glfw, exts, result)
  \/ \E ok \in BOOLEAN, n \in ImageCounts, caps \in SurfaceCapabilities(windowSize) :
       InitVulkan(ok, n, caps)
  \/ MainLoop
  \/ \E close \in BOOLEAN : PollEvents(close)
  \/ BeginFrame
  \/ WaitForFences
  \/ \E result \in AcquireResults, image \in (0 .. (MaxImages - 1)) \cup {NoImage} :
       AcquireNextImage(result, image)
  \/ HandleAcquireResult
  \/ UpdateUniformBuffer
  \/ ResetCommandBuffer
  \/ \E ok \in BOOLEAN : RecordCommandBuffer(ok)
  \/ ResetFences
  \/ \E result \in SubmitResults : QueueSubmit(result)
  \/ \E result \in PresentResults : QueuePresent(result)
  \/ HandlePresentResult
  \/ RecreateEnter
  \/ RecreateWhile
  \/ RecreateGetSize
  \/ \E close \in BOOLEAN : RecreateWaitEvents(close)
  \/ RecreateWaitIdle
  \/ RecreateCleanup
  \/ \E ok \in BOOLEAN, n \in ImageCounts, caps \in SurfaceCapabilities(windowSize) :
       RecreateCreate(ok, n, caps)
  \/ MainWaitIdle
  \/ Cleanup
  \/ MainReturn
  \/ MainCatch

Environment ==
  \/ \E size \in WindowSizes : WindowResize(size)
  \/ GpuComplete
  \/ PresentComplete

Next == Host \/ Environment

Spec == Init /\ [][Next]_vars

\* The host thread runs and the device makes progress; which results the
\* driver returns, and what the window system and the user do, is left open.
FairSpec ==
  /\ Spec
  /\ WF_vars(Host)
  /\ WF_vars(GpuComplete)
  /\ WF_vars(PresentComplete)

\* ------------------------------------------- createVulkanPhysicalDevice()

VK_NULL_HANDLE == 0
VK_DEVICE_EXTENSIONS == <<"VK_KHR_swapchain">>

\* VkQueueFamilyProperties with the surface support of the family.
GraphicsFamily == [queueCount |-> 1, graphics |-> TRUE, presentSupport |-> FALSE]
PresentFamily == [queueCount |-> 2, graphics |-> FALSE, presentSupport |-> TRUE]
GraphicsPresentFamily == [queueCount |-> 1, graphics |-> TRUE, presentSupport |-> TRUE]
TransferFamily == [queueCount |-> 1, graphics |-> FALSE, presentSupport |-> FALSE]

\* What the driver may report of one physical device.
QueueFamilyLists ==
  {<<>>, <<GraphicsFamily>>, <<PresentFamily>>, <<GraphicsPresentFamily>>,
   <<GraphicsFamily, PresentFamily>>, <<TransferFamily, GraphicsPresentFamily>>}
DeviceExtensionSets == {{}, {"VK_KHR_swapchain"}, {"VK_KHR_maintenance1"}}
SurfaceSupports == {[formats |-> 0, presentModes |-> 1], [formats |-> 1, presentModes |-> 0],
                    [formats |-> 2, presentModes |-> 1]}
PhysicalDevices ==
  {[queueFamilies |-> q, extensions |-> e, formats |-> f.formats,
    presentModes |-> f.presentModes] :
     q \in QueueFamilyLists, e \in DeviceExtensionSets, f \in SurfaceSupports}

\* What vkEnumeratePhysicalDevices may report, in enumeration order.
DeviceLists == UNION {[1 .. n -> PhysicalDevices] : n \in 0 .. MaxDevices}

NoFamily == -1

\* The last index (from 0) at which `matches` holds, as the loop that
\* overwrites the optional on every match leaves it.
LastFamily(matches) ==
  LET matching == {i \in 1 .. Len(matches) : matches[i]}
  IN IF matching = {} THEN NoFamily
     ELSE (CHOOSE i \in matching : \A j \in matching : j <= i) - 1

\* readVulkanPhysicalDeviceQueueFamilyProperties
readVulkanPhysicalDeviceQueueFamilyProperties(device) ==
  LET families == device.queueFamilies
  IN [graphicsFamily |->
        LastFamily([i \in 1 .. Len(families) |->
                      families[i].queueCount > 0 /\ families[i].graphics]),
      presentFamily |->
        LastFamily([i \in 1 .. Len(families) |-> families[i].presentSupport])]

\* VkPhysicalDeviceQueueFamilies::isOk
QueueFamiliesOk(queueFamilies) ==
  queueFamilies.graphicsFamily # NoFamily /\ queueFamilies.presentFamily # NoFamily

\* checkSupportsRequiredDeviceExtension: std::all_of over the required names.
checkSupportsRequiredDeviceExtension(device, requiredDeviceExtensions) ==
  \A i \in 1 .. Len(requiredDeviceExtensions) :
    \E name \in device.extensions : name = requiredDeviceExtensions[i]

\* checkSupportsSwapChain: VkSwapChainSupportDetails::isOk
checkSupportsSwapChain(device) == device.formats # 0 /\ device.presentModes # 0

isVulkanPhysicalDeviceSuitable(device, requiredDeviceExtensions) ==
  /\ QueueFamiliesOk(readVulkanPhysicalDeviceQueueFamilyProperties(device))
  /\ checkSupportsRequiredDeviceExtension(device, requiredDeviceExtensions)
  /\ checkSupportsSwapChain(device)

\* Mutant of FindSuitableDevice: the last suitable device is taken.
FindSuitableDevice_Last(devs) ==
  LET suitable == {i \in 1 .. Len(devs) :
                     /\ devs[i].formats # 0
                     /\ devs[i].presentModes # 0
                     /\ "VK_KHR_swapchain" \in devs[i].extensions
                     /\ \E k \in 1 .. Len(devs[i].queueFamilies) :
                          devs[i].queueFamilies[k].graphics
                     /\ \E k \in 1 .. Len(devs[i].queueFamilies) :
                          devs[i].queueFamilies[k].presentSupport}
  IN IF suitable = {} THEN 0
     ELSE CHOOSE i \in suitable : \A j \in suitable : j <= i

\* std::find_if over the enumerated devices: the position (from 1) of the
\* first suitable one, which stands for its handle; VK_NULL_HANDLE if none.
FindSuitableDevice(devs) ==
  LET suitable == {i \in 1 .. Len(devs) :
                     isVulkanPhysicalDeviceSuitable(devs[i], VK_DEVICE_EXTENSIONS)}
  IN IF suitable = {} THEN VK_NULL_HANDLE
     ELSE CHOOSE i \in suitable : \A j \in suitable : i <= j

\* createVulkanPhysicalDevice()
CreateVulkanPhysicalDevice ==
  /\ pc = "createVulkanPhysicalDevice"
  /\ vkPhysicalDevice' = FindSuitableDevice(devices)
  /\ IF vkPhysicalDevice' = VK_NULL_HANDLE
       THEN /\ Throw(ByValue(<<"Failed to find suitable physical device">>))
            /\ failure' = Note("init", <<"Failed to find suitable physical device">>)
       ELSE /\ pc' = "createVulkanLogicalDevice"
            /\ UNCHANGED <<exception, failure>>
  /\ UNCHANGED <<program, exitCode, stderr, windowVars, frameVars, swapchainVars, deviceVars,
                 swapchainStale, idleSinceSubmit, frameLog, devices, lifeVars, eventPending,
                 supportVars>>

\* The programs that select a device for a surface, at the call of
\* createVulkanPhysicalDevice(), for every enumeration within the bounds.
SelectInit ==
  /\ program \in {"pipeline", "final"}
  /\ pc = "createVulkanPhysicalDevice"
  /\ devices \in DeviceLists
  /\ vkPhysicalDevice = VK_NULL_HANDLE
  /\ exception = NoException
  /\ exitCode = "none"
  /\ stderr = <<>>
  /\ failure = <<>>
  /\ windowSize = [width |-> WIDTH, height |-> HEIGHT]
  /\ shouldClose = FALSE
  /\ currentFrame = 0
  /\ frameIndex = NoSlot
  /\ imageIndex = NoImage
  /\ acquireResult = "none"
  /\ presentResult = "none"
  /\ rcSize = NoSize
  /\ vkSwapchain = "VK_NULL_HANDLE"
  /\ vkSwapchainImages = 0
  /\ vkSwapchainImageViews = [size |-> 0, alive |-> FALSE]
  /\ vkSwapchainFramebuffers = [size |-> 0, alive |-> FALSE]
  /\ vkSwapchainExtent = [width |-> 0, height |-> 0]
  /\ imageOwner = <<>>
  /\ vkFrameRenderResources = <<>>
  /\ vkDescriptorSets = <<>>
  /\ gpuQueue = <<>>
  /\ presentQueue = <<>>
  /\ swapchainStale = FALSE
  /\ idleSinceSubmit = FALSE
  /\ frameLog = <<>>
  /\ NoLifecycle
  /\ eventPending = FALSE
  /\ NoSwapchainSupport

SelectNext == CreateVulkanPhysicalDevice \/ MainCatch

SelectSpec == SelectInit /\ [][SelectNext]_vars

\* ---------------------------------------------------------- object lifetimes

\* The objects the programs create, each named by the field or local that
\* holds its handle and an index (the element of a vector, the frame slot,
\* 0 for a single object).
SingleNames ==
  {"glfwWindow", "vkInstance", "vkDebugMessenger", "vkSurface", "vkDevice", "vkSwapchain",
   "vkRenderPass", "vkDescriptorSetLayout", "vkPipelineLayout", "vkGraphicsPipeline",
   "vkCommandPool", "vkDescriptorPool", "vkVertexBuffer", "vkVertexBufferMemory",
   "vkIndexBuffer", "vkIndexBufferMemory", "vertexShaderModule", "fragmentShaderModule",
   "stagingBuffer", "stagingBufferMemory", "copyCommandBuffer"}
SlotNames ==
  {"commandBuffer", "imageAvailableSemaphore", "renderFinishedSemaphore", "inFlightFence",
   "uniformBuffer", "uniformBefferMemory", "vkDescriptorSets"}
SwapchainVectorNames == {"vkSwapchainImageViews", "vkSwapchainFramebuffers"}
ObjectIds ==
  (SingleNames \X {0}) \cup (SlotNames \X Slots)
    \cup (SwapchainVectorNames \X (0 .. (MaxImages - 1)))

\* No object exists yet: status "none", created `made` = 0 times.
NoObjects == [o \in ObjectIds |-> [status |-> "none", made |-> 0]]

\* The handles the call that creates an object is given: the objects it is
\* created from and must not outlive.
Parents(o) ==
  LET name == o[1]
      P(names) == names \X {0}
  IN CASE name \in {"glfwWindow", "vkInstance"} -> {}
       [] name = "vkDebugMessenger" -> P({"vkInstance"})
       [] name = "vkSurface" -> P({"vkInstance", "glfwWindow"})
       [] name = "vkDevice" -> P({"vkInstance"})
       [] name = "vkSwapchain" -> P({"vkDevice", "vkSurface"})
       [] name = "vkSwapchainImageViews" -> P({"vkDevice", "vkSwapchain"})
       [] name = "vkSwapchainFramebuffers" ->
            P({"vkDevice", "vkRenderPass"}) \cup {<<"vkSwapchainImageViews", o[2]>>}
       [] name = "vkPipelineLayout" -> P({"vkDevice"})
       [] name = "vkGraphicsPipeline" -> P({"vkDevice", "vkPipelineLayout", "vkRenderPass"})
       [] name \in {"commandBuffer", "copyCommandBuffer"} -> P({"vkDevice", "vkCommandPool"})
       [] name = "vkDescriptorSets" -> P({"vkDevice", "vkDescriptorPool"})
       [] OTHER -> P({"vkDevice"})

\* The pool an object is allocated from: destroying the pool frees it.
Pool(o) ==
  CASE o[1] \in {"commandBuffer", "copyCommandBuffer"} -> {<<"vkCommandPool", 0>>}
    [] o[1] = "vkDescriptorSets" -> {<<"vkDescriptorPool", 0>>}
    [] OTHER -> {}

\* One Vulkan or GLFW call on an object: a creation (`throws` is the message
\* of the exception thrown when the call fails, <<>> if its result is not
\* checked), a destruction, or a check that creates nothing.
CreateCall(name, index, what) == [op |-> "create", object |-> <<name, index>>, throws |-> what]
DestroyCall(name, index) == [op |-> "destroy", object |-> <<name, index>>, throws |-> <<>>]
CheckCall(what) == [op |-> "check", object |-> <<"vkDevice", 0>>, throws |-> what]
\* vkQueueSubmit of a one-time command buffer (result not checked), and
\* vkQueueWaitIdle on the graphics queue.
SubmitCall(name, index) == [op |-> "submit", object |-> <<name, index>>, throws |-> <<>>]
WaitIdleCall == [op |-> "waitIdle", object |-> <<"vkDevice", 0>>, throws |-> <<>>]

\* The effect of one call on the objects.  Creating into a handle whose
\* object is still live loses that object ("leaked"); destroying a handle
\* whose object is not live is "misdestroyed"; destroying an object also
\* frees what was allocated from it, and leaves everything else that was
\* created from it and is still live "orphaned".
ApplyCall(objs, call) ==
  LET o == call.object
  IN CASE call.op = "create" ->
            [objs EXCEPT ![o] = IF @.status = "live"
                                  THEN [@ EXCEPT !.status = "leaked"]
                                  ELSE [status |-> "live", made |-> @.made + 1]]
       [] call.op = "destroy" ->
            IF objs[o].status # "live"
              THEN [objs EXCEPT ![o].status = "misdestroyed"]
              ELSE [p \in DOMAIN objs |->
                      IF p = o THEN [objs[p] EXCEPT !.status = "destroyed"]
                      ELSE IF objs[p].status = "live" /\ o \in Pool(p)
                        THEN [objs[p] EXCEPT !.status = "destroyed"]
                      ELSE IF objs[p].status = "live" /\ o \in Parents(p)
                        THEN [objs[p] EXCEPT !.status = "orphaned"]
                      ELSE objs[p]]
       [] OTHER -> objs

RECURSIVE Flatten(_)
Flatten(seqs) == IF seqs = <<>> THEN <<>> ELSE Head(seqs) \o Flatten(Tail(seqs))

\* createVulkanBuffer(size, usage, properties, buffer, bufferMemory)
createVulkanBuffer(buffer, bufferMemory, index) ==
  <<CreateCall(buffer, index, <<"Failed to create buffer">>),
    CheckCall(<<"Failed to find suitable memory type">>),
    CreateCall(bufferMemory, index, <<"Failed to allocate buffer memory">>)>>

\* The memory createVulkanBuffer binds to each buffer.
BufferMemory(buffer) ==
  CASE buffer = "stagingBuffer" -> "stagingBufferMemory"
    [] buffer = "vkVertexBuffer" -> "vkVertexBufferMemory"
    [] buffer = "vkIndexBuffer" -> "vkIndexBufferMemory"
    [] buffer = "uniformBuffer" -> "uniformBefferMemory"

\* What a submitted copy from src to dst uses until the GPU has executed it:
\* its command buffer, the two buffers and the memory bound to them.
CopySubmission(commandBuffer, src, dst) ==
  [commandBuffer |-> commandBuffer, src |-> <<src, 0>>, dst |-> <<dst, 0>>,
   uses |-> {commandBuffer} \cup ({src, BufferMemory(src), dst, BufferMemory(dst)} \X {0})]

\* Mutant of copyVulkanBuffer: the command buffer is freed after the submit,
\* without vkQueueWaitIdle.
copyVulkanBuffer_NoWaitIdle ==
  <<CreateCall("copyCommandBuffer", 0, <<>>), SubmitCall("copyCommandBuffer", 0),
    DestroyCall("copyCommandBuffer", 0)>>

\* copyVulkanBuffer: a command buffer is allocated (unchecked), recorded,
\* submitted to the graphics queue (unchecked), the queue is waited for and
\* the command buffer is freed.
copyVulkanBuffer ==
  <<CreateCall("copyCommandBuffer", 0, <<>>), SubmitCall("copyCommandBuffer", 0),
    WaitIdleCall, DestroyCall("copyCommandBuffer", 0)>>

\* createVulkanVertexBuffer, createVulkanIndexBuffer: through a staging buffer.
createVulkanStagedBuffer(buffer, bufferMemory) ==
  createVulkanBuffer("stagingBuffer", "stagingBufferMemory", 0)
    \o createVulkanBuffer(buffer, bufferMemory, 0)
    \o copyVulkanBuffer
    \o <<DestroyCall("stagingBuffer", 0), DestroyCall("stagingBufferMemory", 0)>>

\* The calls of each creation function of initVulkan(), in the order of its
\* code, with `size` the length of the vector it iterates over.
InitCalls(prog, function, size) ==
  CASE function = "createVulkanDebugMessenger" ->
         <<CheckCall(<<"Failed to setup debug messenger: vkCreateDebugUtilsMessengerEXT not found">>),
           CreateCall("vkDebugMessenger", 0, <<"Failed to setup debug messenger">>)>>
    [] function = "createVulkanSurface" ->
         <<CreateCall("vkSurface", 0, <<"Failed to create window surface">>)>>
    [] function = "createVulkanPhysicalDevice" ->
         <<CheckCall(<<"Failed to find suitable physical device">>)>>
    [] function = "createVulkanLogicalDevice" ->
         <<CreateCall("vkDevice", 0, <<"Failed to create logical device">>)>>
    [] function = "createVulkanSwapchain" ->
         <<CreateCall("vkSwapchain", 0, <<"Failed to create swap chain">>)>>
    [] function = "createVulkanImageViews" ->
         [i \in 1 .. size |->
            CreateCall("vkSwapchainImageViews", i - 1, <<"Failed to create image views">>)]
    [] function = "createVulkanRenderPass" ->
         <<CreateCall("vkRenderPass", 0, <<"Failed to create render pass">>)>>
    [] function = "createVulkanDescriptorSetLayout" ->
         <<CreateCall("vkDescriptorSetLayout", 0, <<"Failed to create descriptor set layout">>)>>
    [] function = "createVulkanGraphicsPipeline" ->
         <<CreateCall("vertexShaderModule", 0, <<"Failed to create shader module">>),
           CreateCall("fragmentShaderModule", 0, <<"Failed to create shader module">>),
           CreateCall("vkPipelineLayout", 0, <<"Failed to create pipeline layout">>),
           CreateCall("vkGraphicsPipeline", 0, <<"Failed to create graphics pipeline">>),
           DestroyCall("vertexShaderModule", 0),
           DestroyCall("fragmentShaderModule", 0)>>
    [] function = "createVulkanFramebuffers" ->
         [i \in 1 .. size |->
            CreateCall("vkSwapchainFramebuffers", i - 1, <<"Failed to create framebuffer">>)]
    [] function = "createVulkanCommandPool" ->
         <<CreateCall("vkCommandPool", 0, <<"Failed to create command pool">>)>>
    [] function = "createVulkanVertexBuffer" ->
         createVulkanStagedBuffer("vkVertexBuffer", "vkVertexBufferMemory")
    [] function = "createVulkanIndexBuffer" ->
         createVulkanStagedBuffer("vkIndexBuffer", "vkIndexBufferMemory")
    [] function = "createVulkanFrameRenderResources" ->
         Flatten([k \in 1 .. MAX_FRAMES_IN_FLIGHT |->
           <<CreateCall("commandBuffer", k - 1, <<"Failed to allocate command buffer">>),
             CreateCall("imageAvailableSemaphore", k - 1, <<"Failed to create semaphore">>),
             CreateCall("renderFinishedSemaphore", k - 1, <<"Failed to create semaphore">>),
             CreateCall("inFlightFence", k - 1, <<"Failed to create fence">>)>>
             \o createVulkanBuffer("uniformBuffer", "uniformBefferMemory", k - 1)])
    [] function = "createVulkanDescriptorPool" ->
         <<CreateCall("vkDescriptorPool", 0, <<"Failed to create descriptor pool">>)>>
    [] function = "createVulkanDescriptorSets" ->
         [k \in 1 .. MAX_FRAMES_IN_FLIGHT |->
            CreateCall("vkDescriptorSets", k - 1,
                       IF k = 1 THEN <<"Failed to create descriptor sets">> ELSE <<>>)]

\* What the final program's creation of an object reads besides the handles
\* the creating call is given: the buffer whose requirements size a memory
\* allocation and which is bound to it, the set layout of the pipeline
\* layout and of the descriptor sets, the shader modules of the pipeline,
\* the staging buffer the copy reads.
References(o) ==
  LET name == o[1]
      At(names) == names \X {o[2]}
  IN Parents(o) \cup
       CASE name = "vkVertexBufferMemory" -> At({"vkVertexBuffer"})
         [] name = "vkIndexBufferMemory" -> At({"vkIndexBuffer"})
         [] name = "stagingBufferMemory" -> At({"stagingBuffer"})
         [] name = "uniformBefferMemory" -> At({"uniformBuffer"})
         [] name = "vkPipelineLayout" -> At({"vkDescriptorSetLayout"})
         [] name = "vkGraphicsPipeline" -> At({"vertexShaderModule", "fragmentShaderModule"})
         [] name = "vkDescriptorSets" -> {<<"vkDescriptorSetLayout", 0>>}
         [] name = "copyCommandBuffer" -> At({"stagingBuffer", "stagingBufferMemory"})
         [] OTHER -> {}

\* Mutant of initVulkan: the final program creates its framebuffers before
\* its render pass.
initVulkan_FramebuffersFirst(prog, validationEnabled) ==
  (IF validationEnabled THEN <<"createVulkanDebugMessenger">> ELSE <<>>)
    \o CASE prog = "instance" -> <<>>
         [] prog = "device" -> <<"createVulkanPhysicalDevice">>
         [] prog = "pipeline" ->
              <<"createVulkanSurface", "createVulkanPhysicalDevice",
                "createVulkanLogicalDevice", "createVulkanSwapchain",
                "createVulkanImageViews", "createVulkanRenderPass",
                "createVulkanGraphicsPipeline">>
         [] prog = "final" ->
              <<"createVulkanSurface", "createVulkanPhysicalDevice",
                "createVulkanLogicalDevice", "createVulkanSwapchain",
                "createVulkanImageViews", "createVulkanFramebuffers",
                "createVulkanRenderPass",
                "createVulkanDescriptorSetLayout", "createVulkanGraphicsPipeline",
                "createVulkanCommandPool",
                "createVulkanVertexBuffer", "createVulkanIndexBuffer",
                "createVulkanFrameRenderResources", "createVulkanDescriptorPool",
                "createVulkanDescriptorSets">>

\* initVulkan(): the creation functions after createVulkanInstance(), in
\* the order each program calls them.
initVulkan(prog, validationEnabled) ==
  (IF validationEnabled THEN <<"createVulkanDebugMessenger">> ELSE <<>>)
    \o CASE prog = "instance" -> <<>>
         [] prog = "device" -> <<"createVulkanPhysicalDevice">>
         [] prog = "pipeline" ->
              <<"createVulkanSurface", "createVulkanPhysicalDevice",
                "createVulkanLogicalDevice", "createVulkanSwapchain",
                "createVulkanImageViews", "createVulkanRenderPass",
                "createVulkanGraphicsPipeline">>
         [] prog = "final" ->
              <<"createVulkanSurface", "createVulkanPhysicalDevice",
                "createVulkanLogicalDevice", "createVulkanSwapchain",
                "createVulkanImageViews", "createVulkanRenderPass",
                "createVulkanDescriptorSetLayout", "createVulkanGraphicsPipeline",
                "createVulkanFramebuffers", "createVulkanCommandPool",
                "createVulkanVertexBuffer", "createVulkanIndexBuffer",
                "createVulkanFrameRenderResources", "createVulkanDescriptorPool",
                "createVulkanDescriptorSets">>

\* The position after position `at` of a sequence of positions, `last` at
\* its end.
After(positions, at, last) ==
  LET k == CHOOSE i \in 1 .. Len(positions) : positions[i] = at
  IN IF k = Len(positions) THEN last ELSE positions[k + 1]

\* Mutant of cleanupVulkanSwapchain: the image views are not destroyed.
cleanupVulkanSwapchain_NoImageViews(views, framebuffers) ==
  [i \in 1 .. framebuffers |-> DestroyCall("vkSwapchainFramebuffers", i - 1)]
    \o <<DestroyCall("vkSwapchain", 0)>>

\* cleanupVulkanSwapchain(): the framebuffers, the image views, the swapchain.
cleanupVulkanSwapchain(views, framebuffers) ==
  [i \in 1 .. framebuffers |-> DestroyCall("vkSwapchainFramebuffers", i - 1)]
    \o [i \in 1 .. views |-> DestroyCall("vkSwapchainImageViews", i - 1)]
    \o <<DestroyCall("vkSwapchain", 0)>>

\* cleanup(): cleanupVulkan() and cleanupGlfw() as the positions of their
\* calls, each with the calls made there; the cleanup() of the instance
\* program destroys the window and nothing else.  The lookup of
\* vkDestroyDebugUtilsMessengerEXT succeeds: the instance has the extension
\* enabled whenever the messenger was created through the same lookup.
cleanup(prog, validationEnabled, views, framebuffers) ==
  LET deviceObjects ==
        CASE prog = "final" ->
               <<[at |-> "cleanupVulkanSwapchain",
                  calls |-> cleanupVulkanSwapchain(views, framebuffers)],
                 [at |-> "cleanupVulkan",
                  calls |->
                    <<DestroyCall("vkVertexBuffer", 0), DestroyCall("vkVertexBufferMemory", 0),
                      DestroyCall("vkIndexBuffer", 0), DestroyCall("vkIndexBufferMemory", 0)>>
                    \o Flatten([k \in 1 .. MAX_FRAMES_IN_FLIGHT |->
                         <<DestroyCall("imageAvailableSemaphore", k - 1),
                           DestroyCall("renderFinishedSemaphore", k - 1),
                           DestroyCall("inFlightFence", k - 1),
                           DestroyCall("uniformBuffer", k - 1),
                           DestroyCall("uniformBefferMemory", k - 1)>>])
                    \o <<DestroyCall("vkDescriptorPool", 0), DestroyCall("vkCommandPool", 0),
                         DestroyCall("vkGraphicsPipeline", 0),
                         DestroyCall("vkPipelineLayout", 0),
                         DestroyCall("vkDescriptorSetLayout", 0),
                         DestroyCall("vkRenderPass", 0)>>],
                 [at |-> "vkDestroyDevice", calls |-> <<DestroyCall("vkDevice", 0)>>],
                 [at |-> "vkDestroySurfaceKHR", calls |-> <<DestroyCall("vkSurface", 0)>>]>>
          [] prog = "pipeline" ->
               <<[at |-> "cleanupVulkan",
                  calls |->
                    <<DestroyCall("vkGraphicsPipeline", 0),
                      DestroyCall("vkPipelineLayout", 0),
                      DestroyCall("vkRenderPass", 0)>>
                    \o [i \in 1 .. views |-> DestroyCall("vkSwapchainImageViews", i - 1)]
                    \o <<DestroyCall("vkSwapchain", 0)>>],
                 [at |-> "vkDestroyDevice", calls |-> <<DestroyCall("vkDevice", 0)>>],
                 [at |-> "vkDestroySurfaceKHR", calls |-> <<DestroyCall("vkSurface", 0)>>]>>
          [] OTHER -> <<>>
      messenger ==
        IF validationEnabled
          THEN <<[at |-> "destroyDebugUtilsMessengerEXT",
                  calls |-> <<DestroyCall("vkDebugMessenger", 0)>>]>>
          ELSE <<>>
      instance ==
        IF prog = "instance"
          THEN <<>>
          ELSE <<[at |-> "vkDestroyInstance", calls |-> <<DestroyCall("vkInstance", 0)>>]>>
  IN deviceObjects \o messenger \o instance
       \o <<[at |-> "cleanupGlfw", calls |-> <<DestroyCall("glfwWindow", 0)>>]>>

\* Mutant of recreateVulkanSwapchain: the render pass is created again for
\* the new swapchain.
recreateVulkanSwapchain_WithRenderPass ==
  <<[at |-> "recreate.cleanupVulkanSwapchain", function |-> "cleanupVulkanSwapchain"],
    [at |-> "recreate.createVulkanSwapchain", function |-> "createVulkanSwapchain"],
    [at |-> "recreate.createVulkanImageViews", function |-> "createVulkanImageViews"],
    [at |-> "recreate.createVulkanRenderPass", function |-> "createVulkanRenderPass"],
    [at |-> "recreate.createVulkanFramebuffers", function |-> "createVulkanFramebuffers"]>>

\* recreateVulkanSwapchain() after its wait loop and vkDeviceWaitIdle: the
\* functions it calls, each at a position of its own.
recreateVulkanSwapchain ==
  <<[at |-> "recreate.cleanupVulkanSwapchain", function |-> "cleanupVulkanSwapchain"],
    [at |-> "recreate.createVulkanSwapchain", function |-> "createVulkanSwapchain"],
    [at |-> "recreate.createVulkanImageViews", function |-> "createVulkanImageViews"],
    [at |-> "recreate.createVulkanFramebuffers", function |-> "createVulkanFramebuffers"]>>

\* setupVulkanInstanceCreateInfo: the layers and the pNext chain.
setupVulkanInstanceCreateInfo(validationEnabled) ==
  IF validationEnabled
    THEN [enabledLayerCount |-> Len(VK_VALIDATION_LAYERS), pNext |-> "debugCreateInfo"]
    ELSE [enabledLayerCount |-> 0, pNext |-> "nullptr"]

\* The positions of a list of steps, in order.
Positions(steps) == [k \in 1 .. Len(steps) |-> steps[k].at]
InSeq(x, seq) == \E k \in 1 .. Len(seq) : seq[k] = x

\* The length of the vector a creation function iterates over.
VectorSize(function) ==
  CASE function = "createVulkanImageViews" -> vkSwapchainImages
    [] function = "createVulkanFramebuffers" -> vkSwapchainImageViews.size
    [] OTHER -> 0

\* The calls of the function at a position, and the position after it.
CallsAt(at) ==
  LET steps == cleanup(program, VK_ENABLE_VALIDATION_LAYERS, vkSwapchainImageViews.size,
                       vkSwapchainFramebuffers.size)
      function == IF InSeq(at, Positions(recreateVulkanSwapchain))
                    THEN recreateVulkanSwapchain[
                           CHOOSE k \in 1 .. Len(recreateVulkanSwapchain) :
                             recreateVulkanSwapchain[k].at = at].function
                    ELSE at
  IN IF function = "cleanupVulkanSwapchain"
       THEN cleanupVulkanSwapchain(vkSwapchainImageViews.size, vkSwapchainFramebuffers.size)
     ELSE IF InSeq(at, Positions(steps))
       THEN steps[CHOOSE k \in 1 .. Len(steps) : steps[k].at = at].calls
     ELSE InitCalls(program, function, VectorSize(function))

PositionAfter(at) ==
  LET steps == cleanup(program, VK_ENABLE_VALIDATION_LAYERS, vkSwapchainImageViews.size,
                       vkSwapchainFramebuffers.size)
  IN IF InSeq(at, Positions(recreateVulkanSwapchain))
       THEN After(Positions(recreateVulkanSwapchain), at, "mainLoop")
     ELSE IF InSeq(at, Positions(steps))
       THEN After(Positions(steps), at, "returned")
     ELSE After(initVulkan(program, VK_ENABLE_VALIDATION_LAYERS), at, "mainLoop")

\* The positions at which a function makes calls on the objects: those of
\* initVulkan(), of recreateVulkanSwapchain() and of cleanup().
CallPositions ==
  LET Range(seq) == {seq[k] : k \in 1 .. Len(seq)}
  IN Range(initVulkan("final", TRUE))
       \cup Range(Positions(recreateVulkanSwapchain))
       \cup Range(Positions(cleanup("final", TRUE, 0, 0)))

\* What the steps below leave alone.
lifeCallFrame == <<program, exitCode, stderr, shouldClose, frameVars, vkSwapchain,
                   imageOwner, vkFrameRenderResources, vkDescriptorSets, presentQueue,
                   historyVars, selectVars, VK_ENABLE_VALIDATION_LAYERS, installedLayers,
                   eventPending, supportVars>>
lifeFrame == <<lifeCallFrame, gpuQueue>>

\* initWindow(): glfwInit, glfwCreateWindow.
LifeInitWindow(glfwInitOk) ==
  /\ pc = "initWindow"
  /\ IF glfwInitOk
       THEN /\ objects' = ApplyCall(objects, CreateCall("glfwWindow", 0, <<>>))
            /\ windowSize' = [width |-> WIDTH, height |-> HEIGHT]
            /\ pc' = "createVulkanInstance"
            /\ UNCHANGED exception
       ELSE /\ Throw(ByValue(<<"Failed to initialize GLFW">>))
            /\ UNCHANGED <<objects, windowSize>>
  /\ UNCHANGED <<lifeFrame, createInfo, pending, vkSwapchainImages, vkSwapchainImageViews,
                 vkSwapchainFramebuffers, vkSwapchainExtent>>

\* createVulkanInstance(): the layer check, the extension check, then
\* vkCreateInstance with the create info for this build.
LifeCreateVulkanInstance(glfwExtensions, vulkanExtensions, result) ==
  /\ pc = "createVulkanInstance"
  /\ LET e == createVulkanInstance(program, VK_ENABLE_VALIDATION_LAYERS, installedLayers,
                                   glfwExtensions, vulkanExtensions, result)
         rest == initVulkan(program, VK_ENABLE_VALIDATION_LAYERS)
     IN IF e = NoException
          THEN /\ createInfo' = setupVulkanInstanceCreateInfo(VK_ENABLE_VALIDATION_LAYERS)
               /\ objects' = ApplyCall(objects, CreateCall("vkInstance", 0, <<>>))
               /\ pc' = IF rest = <<>> THEN "mainLoop" ELSE rest[1]
               /\ UNCHANGED exception
          ELSE /\ Throw(e)
               /\ createInfo' = IF e.what = <<"Failed to create Vulkan instance">>
                                  THEN setupVulkanInstanceCreateInfo(VK_ENABLE_VALIDATION_LAYERS)
                                  ELSE createInfo
               /\ UNCHANGED objects
  /\ UNCHANGED <<lifeFrame, windowSize, pending, vkSwapchainImages, vkSwapchainImageViews,
                 vkSwapchainFramebuffers, vkSwapchainExtent>>

\* A function that creates or destroys objects is entered: the vector it
\* fills is resized, and its calls are still to be made.
LifeEnter ==
  /\ pc \in CallPositions
  /\ pending = <<>>
  /\ vkSwapchainImageViews' =
       IF pc \in {"createVulkanImageViews", "recreate.createVulkanImageViews"}
         THEN [vkSwapchainImageViews EXCEPT !.size = vkSwapchainImages]
         ELSE vkSwapchainImageViews
  /\ vkSwapchainFramebuffers' =
       IF pc \in {"createVulkanFramebuffers", "recreate.createVulkanFramebuffers"}
         THEN [vkSwapchainFramebuffers EXCEPT !.size = vkSwapchainImageViews.size]
         ELSE vkSwapchainFramebuffers
  /\ pending' = CallsAt(pc)
  /\ UNCHANGED <<lifeFrame, pc, exception, windowSize, objects, createInfo, vkSwapchainImages,
                 vkSwapchainExtent>>

\* The next call of the function is made.  A call whose result is checked
\* may fail, and the function throws; vkCreateSwapchainKHR gives the
\* swapchain n images at the chosen extent.  vkQueueSubmit of the copy may
\* fail too, and the function goes on, its result unread; when it succeeds
\* the copy is queued behind what the queue holds.  vkQueueWaitIdle returns
\* when the queue is empty.  After its last call the function returns and
\* the next one is called.
LifeCall(ok, n, capabilities) ==
  /\ pc \in CallPositions
  /\ pending # <<>>
  /\ LET call == Head(pending)
         unchecked == call.throws = <<>>
     IN /\ ((unchecked /\ call.op # "submit") => ok)
        /\ (call.op = "waitIdle" => gpuQueue = <<>>)
        /\ IF ok \/ unchecked
             THEN /\ objects' = ApplyCall(objects, call)
                  /\ pending' = Tail(pending)
                  /\ pc' = IF Tail(pending) = <<>> THEN PositionAfter(pc) ELSE pc
                  /\ IF call.op = "create" /\ call.object = <<"vkSwapchain", 0>>
                       THEN /\ vkSwapchainImages' = n
                            /\ vkSwapchainExtent' = chooseSwapExtent(capabilities, windowSize)
                       ELSE UNCHANGED <<vkSwapchainImages, vkSwapchainExtent>>
                  /\ gpuQueue' =
                       IF call.op = "submit" /\ ok
                         THEN Append(gpuQueue,
                                     CopySubmission(call.object, "stagingBuffer",
                                                    IF pc = "createVulkanVertexBuffer"
                                                      THEN "vkVertexBuffer"
                                                      ELSE "vkIndexBuffer"))
                         ELSE gpuQueue
                  /\ UNCHANGED exception
             ELSE /\ Throw(ByValue(call.throws))
                  /\ UNCHANGED <<objects, pending, vkSwapchainImages, vkSwapchainExtent,
                                 gpuQueue>>
  /\ UNCHANGED <<lifeCallFrame, windowSize, createInfo, vkSwapchainImageViews,
                 vkSwapchainFramebuffers>>

\* The GPU executes the copy at the head of the graphics queue.
LifeGpuCopy ==
  /\ pc \in CallPositions
  /\ gpuQueue # <<>>
  /\ gpuQueue' = Tail(gpuQueue)
  /\ UNCHANGED <<lifeCallFrame, pc, exception, windowSize, objects, createInfo, pending,
                 vkSwapchainImages, vkSwapchainImageViews, vkSwapchainFramebuffers,
                 vkSwapchainExtent>>

\* A frame() of the final program takes its slot, advances currentFrame and
\* calls recreateVulkanSwapchain(), which has left its wait loop; at most
\* MaxRecreations recreations are followed.
LifeRecreate ==
  /\ pc = "mainLoop"
  /\ program = "final"
  /\ objects[<<"vkSwapchain", 0>>].made <= MaxRecreations
  /\ currentFrame' = (currentFrame + 1) % CounterPeriod
  /\ pc' = recreateVulkanSwapchain[1].at
  /\ UNCHANGED <<program, exitCode, stderr, shouldClose, frameIndex, imageIndex,
                 acquireResult, presentResult, rcSize, vkSwapchain, imageOwner, deviceVars,
                 historyVars, selectVars, VK_ENABLE_VALIDATION_LAYERS, installedLayers,
                 eventPending, supportVars, exception, windowSize, objects, createInfo,
                 pending,
                 vkSwapchainImages, vkSwapchainImageViews, vkSwapchainFramebuffers,
                 vkSwapchainExtent>>

\* mainLoop() returns (the window should close; the final program has waited
\* for the device to be idle) and cleanup() begins.
LifeMainLoopReturns ==
  /\ pc = "mainLoop"
  /\ pc' = cleanup(program, VK_ENABLE_VALIDATION_LAYERS, vkSwapchainImageViews.size,
                   vkSwapchainFramebuffers.size)[1].at
  /\ UNCHANGED <<lifeFrame, exception, windowSize, objects, createInfo, pending,
                 vkSwapchainImages, vkSwapchainImageViews, vkSwapchainFramebuffers,
                 vkSwapchainExtent>>

\* Some of the programs from the start of main(), for either build (the
\* instance program has no validation layers to enable) and for the layers
\* installed on the system.
LifeStart(programs) ==
  /\ program \in programs
  /\ pc = "initWindow"
  /\ VK_ENABLE_VALIDATION_LAYERS \in (IF program = "instance" THEN {FALSE} ELSE BOOLEAN)
  /\ installedLayers \in InstanceLayerSets
  /\ createInfo = NoCreateInfo
  /\ objects = NoObjects
  /\ pending = <<>>
  /\ eventPending = FALSE
  /\ NoSwapchainSupport
  /\ exception = NoException
  /\ exitCode = "none"
  /\ stderr = <<>>
  /\ failure = <<>>
  /\ windowSize = NoSize
  /\ shouldClose = FALSE
  /\ currentFrame = 0
  /\ frameIndex = NoSlot
  /\ imageIndex = NoImage
  /\ acquireResult = "none"
  /\ presentResult = "none"
  /\ rcSize = NoSize
  /\ vkSwapchain = "VK_NULL_HANDLE"
  /\ vkSwapchainImages = 0
  /\ vkSwapchainImageViews = [size |-> 0, alive |-> FALSE]
  /\ vkSwapchainFramebuffers = [size |-> 0, alive |-> FALSE]
  /\ vkSwapchainExtent = [width |-> 0, height |-> 0]
  /\ imageOwner = <<>>
  /\ vkFrameRenderResources = <<>>
  /\ vkDescriptorSets = <<>>
  /\ gpuQueue = <<>>
  /\ presentQueue = <<>>
  /\ swapchainStale = FALSE
  /\ idleSinceSubmit = FALSE
  /\ frameLog = <<>>
  /\ devices = <<>>
  /\ vkPhysicalDevice = VK_NULL_HANDLE

\* The programs that enable validation layers.
LifeInit == LifeStart({"device", "pipeline", "final"})

\* Mutant of LifeFrameThrows: the exception is in flight and cleanup() runs
\* all the same, as a destructor would.
LifeFrameThrows_ThenCleanup(what) ==
  /\ pc = "mainLoop"
  /\ program = "final"
  /\ exception' = ByValue(what)
  /\ pc' = "cleanupVulkanSwapchain"
  /\ UNCHANGED <<lifeFrame, windowSize, objects, createInfo, pending, vkSwapchainImages,
                 vkSwapchainImageViews, vkSwapchainFramebuffers, vkSwapchainExtent>>

\* A frame() of the final program fails and throws.
LifeFrameThrows(what) ==
  /\ pc = "mainLoop"
  /\ program = "final"
  /\ Throw(ByValue(what))
  /\ UNCHANGED <<lifeFrame, windowSize, objects, createInfo, pending, vkSwapchainImages,
                 vkSwapchainImageViews, vkSwapchainFramebuffers, vkSwapchainExtent>>

\* What frame() throws.
FrameErrors ==
  {<<"Failed to begin recording command buffer">>, <<"Failed to record command buffer">>,
   <<"Failed to acquire swapchain image">>, <<"Failed to submit draw command buffer">>,
   <<"Failed to present swapchain image">>}

LifeNext ==
  \/ \E ok \in BOOLEAN : LifeInitWindow(ok)
  \/ \E glfw \in GlfwExtensionLists, exts \in InstanceExtensionSets,
        result \in CreateInstanceResults :
       LifeCreateVulkanInstance(glfw, exts, result)
  \/ LifeEnter
  \/ \E ok \in BOOLEAN, n \in ImageCounts, caps \in SurfaceCapabilities(windowSize) :
       LifeCall(ok, n, caps)
  \/ LifeGpuCopy
  \/ LifeRecreate
  \/ \E what \in FrameErrors : LifeFrameThrows(what)
  \/ LifeMainLoopReturns
  \/ MainReturn
  \/ MainCatch

LifeSpec == LifeInit /\ [][LifeNext]_vars

\* Every milestone program.
MilestoneInit == LifeStart(Programs)

MilestoneSpec == MilestoneInit /\ [][LifeNext]_vars

\* ------------------------------------------------------ the frame counter

\* The values of currentFrame at CounterBits bits.
CounterModulus == 2 ^ CounterBits

\* Mutant of CounterFrame: a call that returns early after an out-of-date
\* acquisition does not count.
CounterFrame_NotCountedWhenOutOfDate(result) ==
  /\ pc = "frame"
  /\ frameIndex' = currentFrame % MAX_FRAMES_IN_FLIGHT
  /\ currentFrame' = IF result = "VK_ERROR_OUT_OF_DATE_KHR"
                       THEN currentFrame
                       ELSE (currentFrame + 1) % CounterModulus
  /\ acquireResult' = result
  /\ IF result \in VK_ERRORS
       THEN Throw(ByValue(<<"Failed to acquire swapchain image">>))
       ELSE UNCHANGED <<pc, exception>>
  /\ UNCHANGED <<program, exitCode, stderr, windowVars, imageIndex, presentResult, rcSize,
                 swapchainVars, deviceVars, historyVars, otherVars>>

\* One call of frame() by mainLoop(), as far as the counter goes: the slot is
\* taken from currentFrame, currentFrame++ wraps at the counter's width, and
\* the call returns early (out of date), throws (an error) or runs to its
\* end, none of which touches currentFrame again.  frameIndex and
\* acquireResult keep the values the call had, for the next call to be
\* compared with.
CounterFrame(result) ==
  /\ pc = "frame"
  /\ frameIndex' = currentFrame % MAX_FRAMES_IN_FLIGHT
  /\ currentFrame' = (currentFrame + 1) % CounterModulus
  /\ acquireResult' = result
  /\ IF result \in VK_ERRORS
       THEN Throw(ByValue(<<"Failed to acquire swapchain image">>))
       ELSE UNCHANGED <<pc, exception>>
  /\ UNCHANGED <<program, exitCode, stderr, windowVars, imageIndex, presentResult, rcSize,
                 swapchainVars, deviceVars, historyVars, otherVars>>

\* The final program as initVulkan() leaves it, about to call frame() for
\* the first time.
CounterInit ==
  /\ program = "final"
  /\ pc = "frame"
  /\ exception = NoException
  /\ exitCode = "none"
  /\ stderr = <<>>
  /\ failure = <<>>
  /\ windowSize = [width |-> WIDTH, height |-> HEIGHT]
  /\ shouldClose = FALSE
  /\ currentFrame = 0
  /\ frameIndex = NoSlot
  /\ imageIndex = NoImage
  /\ acquireResult = "none"
  /\ presentResult = "none"
  /\ rcSize = NoSize
  /\ vkSwapchain = "live"
  /\ vkSwapchainImages = 2
  /\ vkSwapchainImageViews = [size |-> 2, alive |-> TRUE]
  /\ vkSwapchainFramebuffers = [size |-> 2, alive |-> TRUE]
  /\ vkSwapchainExtent = [width |-> WIDTH, height |-> HEIGHT]
  /\ imageOwner = [i \in 0 .. 1 |-> "free"]
  /\ vkFrameRenderResources = [s \in Slots |-> NewFrameRenderResources]
  /\ vkDescriptorSets = [s \in Slots |-> [buffer |-> NoSlot]]
  /\ gpuQueue = <<>>
  /\ presentQueue = <<>>
  /\ swapchainStale = FALSE
  /\ idleSinceSubmit = FALSE
  /\ frameLog = <<>>
  /\ devices = <<>>
  /\ vkPhysicalDevice = 0
  /\ NoLifecycle
  /\ eventPending = FALSE
  /\ NoSwapchainSupport

CounterNext ==
  \/ \E result \in AcquireResults : CounterFrame(result)
  \/ MainCatch

CounterSpec == CounterInit /\ [][CounterNext]_vars

\* ------------------------------- the wait loop of recreateVulkanSwapchain()

\* The positions of the loop `while (width == 0 || height == 0)`.
WaitLoopPositions == {"recreate.while", "recreate.getSize", "recreate.waitEvents"}

\* The window system gives the window's framebuffer another size (the window
\* is resized, minimized or restored) and queues the event for the program.
WindowSizeEvent(size) ==
  /\ pc \in {"recreateVulkanSwapchain", "recreate.waitIdle"} \cup WaitLoopPositions
  /\ size # windowSize
  /\ windowSize' = size
  /\ eventPending' = TRUE
  /\ UNCHANGED <<mainVars, shouldClose, frameVars, swapchainVars, deviceVars, historyVars,
                 selectVars, lifeVars, supportVars>>

\* The window system queues an event that leaves the framebuffer size as it
\* is (input, focus, a request to close).
InputEvent ==
  /\ pc \in {"recreateVulkanSwapchain"} \cup WaitLoopPositions
  /\ ~eventPending
  /\ eventPending' = TRUE
  /\ UNCHANGED <<mainVars, windowVars, frameVars, swapchainVars, deviceVars, historyVars,
                 selectVars, lifeVars, supportVars>>

\* In the loop: glfwWaitEvents() puts the thread to sleep until an event is
\* queued, then processes the queued events and returns; the loop condition
\* is tested next, on the width and height read before the call.
WaitEvents(close) ==
  /\ pc = "recreate.waitEvents"
  /\ eventPending
  /\ eventPending' = FALSE
  /\ shouldClose' = (shouldClose \/ close)
  /\ pc' = "recreate.while"
  /\ UNCHANGED <<program, exception, exitCode, stderr, windowSize, frameVars, swapchainVars,
                 deviceVars, historyVars, selectVars, lifeVars, supportVars>>

\* frame() of the final program has called recreateVulkanSwapchain() after
\* an out-of-date acquisition in its first frame; the window has any of its
\* sizes, and an event may be queued since the last glfwPollEvents().
WaitLoopInit ==
  /\ program = "final"
  /\ pc = "recreateVulkanSwapchain"
  /\ exception = NoException
  /\ exitCode = "none"
  /\ stderr = <<>>
  /\ failure = <<>>
  /\ windowSize \in WindowSizes
  /\ shouldClose = FALSE
  /\ currentFrame = 1
  /\ frameIndex = 0
  /\ imageIndex = NoImage
  /\ acquireResult = "none"
  /\ presentResult = "none"
  /\ rcSize = NoSize
  /\ vkSwapchain = "live"
  /\ vkSwapchainImages = 2
  /\ vkSwapchainImageViews = [size |-> 2, alive |-> TRUE]
  /\ vkSwapchainFramebuffers = [size |-> 2, alive |-> TRUE]
  /\ vkSwapchainExtent = [width |-> WIDTH, height |-> HEIGHT]
  /\ imageOwner = [i \in 0 .. 1 |-> "free"]
  /\ vkFrameRenderResources = [s \in Slots |-> NewFrameRenderResources]
  /\ vkDescriptorSets = [s \in Slots |-> [buffer |-> NoSlot]]
  /\ gpuQueue = <<>>
  /\ presentQueue = <<>>
  /\ swapchainStale = TRUE
  /\ idleSinceSubmit = FALSE
  /\ frameLog = <<[call |-> "vkWaitForFences", slot |-> 0, image |-> NoImage],
                  [call |-> "vkAcquireNextImageKHR", slot |-> 0, image |-> NoImage]>>
  /\ devices = <<>>
  /\ vkPhysicalDevice = 0
  /\ NoLifecycle
  /\ eventPending \in BOOLEAN
  /\ NoSwapchainSupport

\* recreateVulkanSwapchain() from its first line to its return or throw.
WaitLoopHost ==
  \/ RecreateEnter
  \/ RecreateWhile
  \/ RecreateGetSize
  \/ \E close \in BOOLEAN : WaitEvents(close)
  \/ RecreateWaitIdle
  \/ RecreateCleanup
  \/ \E ok \in BOOLEAN, n \in ImageCounts, caps \in SurfaceCapabilities(windowSize) :
       RecreateCreate(ok, n, caps)
  \/ MainCatch

WaitLoopEnvironment ==
  \/ \E size \in WindowSizes : WindowSizeEvent(size)
  \/ InputEvent

WaitLoopNext == WaitLoopHost \/ WaitLoopEnvironment

WaitLoopSpec == WaitLoopInit /\ [][WaitLoopNext]_vars

\* The host thread runs whenever it is not asleep in glfwWaitEvents(); the
\* window system owes the program no event.
FairWaitLoopSpec == WaitLoopSpec /\ WF_vars(WaitLoopHost)

\* -------------------------------------- createVulkanSwapchain(): the choices

VK_FORMAT_B8G8R8A8_SRGB == "VK_FORMAT_B8G8R8A8_SRGB"
VK_COLOR_SPACE_SRGB_NONLINEAR_KHR == "VK_COLOR_SPACE_SRGB_NONLINEAR_KHR"
VK_PRESENT_MODE_FIFO_KHR == "VK_PRESENT_MODE_FIFO_KHR"

\* Mutant of chooseSwapSurfaceFormat: the colour space is not compared.
chooseSwapSurfaceFormat_AnyColorSpace(formats) ==
  LET matches == {i \in 1 .. Len(formats) : formats[i].format = VK_FORMAT_B8G8R8A8_SRGB}
  IN IF matches = {}
       THEN formats[1]
       ELSE formats[CHOOSE i \in matches : \A j \in matches : i <= j]

\* VkSwapChainSupportDetails::chooseSwapSurfaceFormat: the loop returns at the
\* first match, formats[0] is returned after it.
chooseSwapSurfaceFormat(formats) ==
  LET matches == {i \in 1 .. Len(formats) :
                    /\ formats[i].format = VK_FORMAT_B8G8R8A8_SRGB
                    /\ formats[i].colorSpace = VK_COLOR_SPACE_SRGB_NONLINEAR_KHR}
  IN IF matches = {}
       THEN formats[1]
       ELSE formats[CHOOSE i \in matches : \A j \in matches : i <= j]

\* VkSwapChainSupportDetails::chooseSwapPresentMode
chooseSwapPresentMode(presentModes) == VK_PRESENT_MODE_FIFO_KHR

\* std::min
Min(a, b) == IF b < a THEN b ELSE a

\* createVulkanSwapchain: imageCount = minImageCount + 1 in uint32_t, at most
\* maxImageCount when that is not 0.
chooseImageCount(capabilities) ==
  LET imageCount == ToUint32(capabilities.minImageCount + 1)
  IN IF capabilities.maxImageCount > 0
       THEN Min(imageCount, capabilities.maxImageCount)
       ELSE imageCount

\* What vkGetPhysicalDeviceSurfaceFormatsKHR may report: between 1 and
\* MaxFormats formats (the device was selected with a non-empty list).
SurfaceFormats ==
  {[format |-> VK_FORMAT_B8G8R8A8_SRGB, colorSpace |-> VK_COLOR_SPACE_SRGB_NONLINEAR_KHR],
   [format |-> VK_FORMAT_B8G8R8A8_SRGB, colorSpace |-> "VK_COLOR_SPACE_DISPLAY_P3_NONLINEAR_EXT"],
   [format |-> "VK_FORMAT_B8G8R8A8_UNORM", colorSpace |-> VK_COLOR_SPACE_SRGB_NONLINEAR_KHR]}
FormatLists == UNION {[1 .. n -> SurfaceFormats] : n \in 1 .. MaxFormats}
PresentModeSets ==
  {{VK_PRESENT_MODE_FIFO_KHR}, {"VK_PRESENT_MODE_MAILBOX_KHR"},
   {VK_PRESENT_MODE_FIFO_KHR, "VK_PRESENT_MODE_MAILBOX_KHR"}}

\* The image counts a surface may report: small ones and the largest words,
\* with minImageCount <= maxImageCount, or maxImageCount = 0 (no limit).
ImageCountLimits ==
  LET words == {0, 1, 2, 3, UINT32_MAX - 1, UINT32_MAX}
  IN {l \in [minImageCount : words \ {0}, maxImageCount : words] :
        l.maxImageCount = 0 \/ l.minImageCount <= l.maxImageCount}

\* The extents a surface may report: currentExtent fixed by the surface or
\* left to the swapchain (0xFFFFFFFF), in either or both of its fields, and
\* limits with minImageExtent <= maxImageExtent.
ExtentLimits ==
  LET sizes == [width : {WIDTH, UINT32_MAX}, height : {HEIGHT, UINT32_MAX}]
      limits == {<<[width |-> 1, height |-> 1],
                   [width |-> WIDTH \div 2, height |-> HEIGHT \div 2]>>,
                 <<[width |-> WIDTH, height |-> HEIGHT],
                   [width |-> WIDTH, height |-> HEIGHT]>>,
                 <<[width |-> WIDTH \div 2, height |-> 1],
                   [width |-> UINT32_MAX, height |-> HEIGHT \div 2]>>}
  IN {[currentExtent |-> c, minImageExtent |-> l[1], maxImageExtent |-> l[2]] :
        c \in sizes, l \in limits}

\* What readVulkanSwapChainSupport may return for the selected device.
SwapChainSupportDetails ==
  {[capabilities |-> [minImageCount |-> l.minImageCount, maxImageCount |-> l.maxImageCount,
                      currentExtent |-> e.currentExtent,
                      minImageExtent |-> e.minImageExtent,
                      maxImageExtent |-> e.maxImageExtent],
    formats |-> f, presentModes |-> m] :
     l \in ImageCountLimits, e \in ExtentLimits, f \in FormatLists, m \in PresentModeSets}

\* createVulkanSwapchain() up to its call of vkCreateSwapchainKHR: the
\* choices are made from the support details and the window's size, and
\* written to the create info.
FillSwapchainCreateInfo ==
  /\ pc = "createVulkanSwapchain"
  /\ LET surfaceFormat == chooseSwapSurfaceFormat(details.formats)
         presentMode == chooseSwapPresentMode(details.presentModes)
         extent == chooseSwapExtent(details.capabilities, windowSize)
         imageCount == chooseImageCount(details.capabilities)
     IN swapchainCreateInfo' =
          [minImageCount |-> imageCount,
           imageFormat |-> surfaceFormat.format,
           imageColorSpace |-> surfaceFormat.colorSpace,
           imageExtent |-> extent,
           presentMode |-> presentMode]
  /\ pc' = "vkCreateSwapchainKHR"
  /\ UNCHANGED <<program, exception, exitCode, stderr, windowVars, frameVars, swapchainVars,
                 deviceVars, historyVars, selectVars, lifeVars, eventPending, details>>

\* The programs that create a swapchain, at the call of
\* createVulkanSwapchain(), for every support the surface may report within
\* the bounds and every size of the window.
SupportInit ==
  /\ program \in {"pipeline", "final"}
  /\ pc = "createVulkanSwapchain"
  /\ details \in SwapChainSupportDetails
  /\ swapchainCreateInfo = <<>>
  /\ windowSize \in WindowSizes
  /\ devices = <<>>
  /\ vkPhysicalDevice = 0
  /\ exception = NoException
  /\ exitCode = "none"
  /\ stderr = <<>>
  /\ failure = <<>>
  /\ shouldClose = FALSE
  /\ currentFrame = 0
  /\ frameIndex = NoSlot
  /\ imageIndex = NoImage
  /\ acquireResult = "none"
  /\ presentResult = "none"
  /\ rcSize = NoSize
  /\ vkSwapchain = "VK_NULL_HANDLE"
  /\ vkSwapchainImages = 0
  /\ vkSwapchainImageViews = [size |-> 0, alive |-> FALSE]
  /\ vkSwapchainFramebuffers = [size |-> 0, alive |-> FALSE]
  /\ vkSwapchainExtent = [width |-> 0, height |-> 0]
  /\ imageOwner = <<>>
  /\ vkFrameRenderResources = <<>>
  /\ vkDescriptorSets = <<>>
  /\ gpuQueue = <<>>
  /\ presentQueue = <<>>
  /\ swapchainStale = FALSE
  /\ idleSinceSubmit = FALSE
  /\ frameLog = <<>>
  /\ NoLifecycle
  /\ eventPending = FALSE

SupportNext == FillSwapchainCreateInfo

SupportSpec == SupportInit /\ [][SupportNext]_vars

\* ------------------------------------------------------------------ claims

CommandBuffer(s) == vkFrameRenderResources[s].commandBuffer
PendingOn(s) == {i \in 1 .. Len(gpuQueue) : gpuQueue[i].slot = s}

\* The calls of a frame() that reaches presentation, in order.
FrameOrder ==
  <<"vkWaitForFences", "vkAcquireNextImageKHR", "updateUniformBuffer",
    "vkResetCommandBuffer", "recordVulkanCommandBuffer", "vkResetFences",
    "vkQueueSubmit", "vkQueuePresentKHR">>

\* C1: when frame() has called vkQueuePresentKHR, the calls it made are
\* exactly: fence wait, acquire, uniform write, command buffer reset and
\* record, fence reset, submit, present, all for its own slot; and the image
\* presented is the image that was acquired, recorded and submitted in that
\* call.
C1_FrameOrder ==
  pc = "presentResult" =>
    /\ [i \in 1 .. Len(frameLog) |-> frameLog[i].call] = FrameOrder
    /\ \A i \in 1 .. Len(frameLog) : frameLog[i].slot = frameIndex
    /\ frameLog[2].image # NoImage
    /\ frameLog[5].image = frameLog[2].image
    /\ frameLog[7].image = frameLog[2].image
    /\ frameLog[8].image = frameLog[2].image

C1_Witness ==
  /\ pc = "presentResult"
  /\ presentResult = "VK_SUCCESS"
  /\ frameIndex = 1
  /\ Len(presentQueue) = 2

\* C2: at most MAX_FRAMES_IN_FLIGHT submissions are pending on the GPU, and
\* at most one of them per frame slot.
C2_FramesInFlight ==
  /\ Len(gpuQueue) <= MAX_FRAMES_IN_FLIGHT
  /\ \A s \in Slots : Cardinality(PendingOn(s)) <= 1

C2_Witness ==
  /\ Len(gpuQueue) = MAX_FRAMES_IN_FLIGHT
  /\ pc = "vkWaitForFences"
  /\ ~vkFrameRenderResources[frameIndex].inFlightFence

\* C3: where frame() writes the slot's uniform buffer or resets or records
\* the slot's command buffer, no submission of that slot is pending.
C3_NoReuseWhilePending ==
  pc \in {"updateUniformBuffer", "vkResetCommandBuffer", "recordVulkanCommandBuffer",
          "vkResetFences"}
    => PendingOn(frameIndex) = {}

C3_Witness ==
  /\ pc = "vkResetCommandBuffer"
  /\ CommandBuffer(frameIndex).state = "executable"
  /\ vkFrameRenderResources[frameIndex].uniformBufferMapped = "written"
  /\ gpuQueue # <<>>

\* C4: no frame() returns, and no acquisition is issued, while the swapchain
\* is one that an acquisition reported out of date or a present reported out
\* of date or suboptimal; the swapchain acquired from is live.
C4_RecreatedInSameFrame ==
  /\ pc \in {"mainLoop", "glfwPollEvents", "frame", "vkWaitForFences",
             "vkAcquireNextImageKHR"} => ~swapchainStale
  /\ pc = "vkAcquireNextImageKHR" => vkSwapchain = "live"

C4_Witness ==
  /\ pc = "vkAcquireNextImageKHR"
  /\ idleSinceSubmit
  /\ \E s \in Slots : CommandBuffer(s).framebuffer = Outdated

\* The positions inside recreateVulkanSwapchain().
RecreatePositions ==
  {"recreateVulkanSwapchain", "recreate.while", "recreate.getSize", "recreate.waitEvents",
   "recreate.waitIdle", "recreate.cleanup", "recreate.create"}

\* C5: once the window has a new, non-zero framebuffer size while the main
\* loop runs, a later frame() enters the recreation of the swapchain (or the
\* swapchain's extent is the window's size, or the loop has ended): frames
\* are not presented at the old extent forever.
C5_ResizeRecreates ==
  (program = "final" /\ pc \in LoopPositions /\ ~IsZero(windowSize)
     /\ vkSwapchainExtent # windowSize)
    ~> (\/ pc \in RecreatePositions
        \/ vkSwapchainExtent = windowSize
        \/ pc \notin LoopPositions)

Precedes(commands, a, b) ==
  \E i, j \in 1 .. Len(commands) : i < j /\ commands[i] = a /\ commands[j] = b

\* C6: every slot's descriptor set points at the slot's uniform buffer, and
\* every recorded command buffer binds the descriptor sets before it draws.
C6_UniformsDriveDraw ==
  \A s \in DOMAIN vkFrameRenderResources :
    /\ vkDescriptorSets[s].buffer = s
    /\ CommandBuffer(s).state = "executable" =>
         Precedes(CommandBuffer(s).commands, "vkCmdBindDescriptorSets", "vkCmdDrawIndexed")

FrameFailures ==
  {<<"Failed to begin recording command buffer">>, <<"Failed to record command buffer">>,
   <<"Failed to acquire swapchain image">>, <<"Failed to submit draw command buffer">>,
   <<"Failed to present swapchain image">>}

\* C7: once vkAcquireNextImageKHR, vkQueueSubmit or vkQueuePresentKHR has
\* returned a failure, frame() does nothing but test the result and throw,
\* and main prints the message and returns EXIT_FAILURE.
C7_FrameFailureEndsProgram ==
  (failure # <<>> /\ failure[1] = "frame" /\ failure[2] \in FrameFailures) =>
    /\ pc \in {"acquireResult", "presentResult", "threw", "exited"}
    /\ pc = "acquireResult" => acquireResult \in VK_ERRORS
    /\ pc = "presentResult" => presentResult \in VK_ERRORS
    /\ pc = "threw" => exception = ByValue(failure[2])
    /\ pc = "exited" => exitCode = "EXIT_FAILURE" /\ stderr = failure[2]

C7_Witness ==
  /\ pc = "exited"
  /\ failure = <<"frame", <<"Failed to present swapchain image">>>>
  /\ exitCode = "EXIT_FAILURE"

\* C8: in the final program cleanupVulkanSwapchain() is called only after
\* vkDeviceWaitIdle with no submission since, and no pending submission
\* renders to a destroyed framebuffer.
C8_IdleBeforeDestroy ==
  /\ (program = "final" /\ pc \in {"recreate.cleanup", "cleanup"}) =>
       idleSinceSubmit /\ gpuQueue = <<>>
  /\ gpuQueue # <<>> =>
       /\ vkSwapchainFramebuffers.alive
       /\ \A i \in 1 .. Len(gpuQueue) : gpuQueue[i].framebuffer # Outdated

C8_Witness ==
  /\ pc = "recreate.cleanup"
  /\ \A s \in Slots : CommandBuffer(s).state = "executable"

\* C9: a failure of an initialization step ends in main's handler: the
\* message on stderr and EXIT_FAILURE; EXIT_SUCCESS only without a failure.
C9_InitFailureHandled ==
  /\ (failure # <<>> /\ failure[1] = "init" /\ pc \in {"exited", "terminated"}) =>
       pc = "exited" /\ exitCode = "EXIT_FAILURE" /\ stderr = failure[2]
  /\ exitCode = "EXIT_SUCCESS" => failure = <<>>

\* A device as the selection is described: it has a graphics and a present
\* queue family, every required extension, a surface format and a present mode.
Qualifies(device) ==
  /\ \E k \in 1 .. Len(device.queueFamilies) : device.queueFamilies[k].graphics
  /\ \E k \in 1 .. Len(device.queueFamilies) : device.queueFamilies[k].presentSupport
  /\ \A k \in 1 .. Len(VK_DEVICE_EXTENSIONS) : VK_DEVICE_EXTENSIONS[k] \in device.extensions
  /\ device.formats >= 1
  /\ device.presentModes >= 1

\* C10: createVulkanPhysicalDevice leaves the first enumerated device that
\* qualifies in vkPhysicalDevice; if none qualifies it throws "Failed to find
\* suitable physical device" and vkPhysicalDevice is VK_NULL_HANDLE.
C10_FirstSuitableDevice ==
  pc # "createVulkanPhysicalDevice" =>
    LET qualifying == {i \in 1 .. Len(devices) : Qualifies(devices[i])}
        message == <<"Failed to find suitable physical device">>
    IN IF qualifying = {}
         THEN /\ vkPhysicalDevice = VK_NULL_HANDLE
              /\ pc \in {"threw", "exited"}
              /\ pc = "threw" => exception = ByValue(message)
              /\ pc = "exited" => stderr = message /\ exitCode = "EXIT_FAILURE"
         ELSE /\ pc = "createVulkanLogicalDevice"
              /\ vkPhysicalDevice \in qualifying
              /\ \A j \in qualifying : vkPhysicalDevice <= j

C10_Witness ==
  /\ pc = "createVulkanLogicalDevice"
  /\ vkPhysicalDevice = 2
  /\ Qualifies(devices[2])
  /\ devices[1].formats = 0

\* C12: while the frame loop runs, a slot's fence is unsignalled only if a
\* submission that will signal it is in the queue, or frame() stands between
\* the vkResetFences and the vkQueueSubmit of that slot: the wait at the top
\* of frame() is always for a fence that is signalled or will be.
C12_FenceWillBeSignalled ==
  (program = "final" /\ pc \in LoopPositions) =>
    \A s \in DOMAIN vkFrameRenderResources :
      ~vkFrameRenderResources[s].inFlightFence =>
        \/ PendingOn(s) # {}
        \/ frameIndex = s /\ pc = "vkQueueSubmit"

\* frame() waits for the fence of a slot whose earlier submission is still
\* in the queue, behind the submission of the other slot.
C12_Witness ==
  /\ pc = "vkWaitForFences"
  /\ ~vkFrameRenderResources[frameIndex].inFlightFence
  /\ PendingOn(frameIndex) # {}
  /\ Len(gpuQueue) = MAX_FRAMES_IN_FLIGHT

\* frame() is on the path of an acquisition that returned
\* VK_ERROR_OUT_OF_DATE_KHR: at the test of the result, or in the
\* recreateVulkanSwapchain() called for it.
AcquireOutOfDate ==
  \/ pc = "acquireResult" /\ acquireResult = "VK_ERROR_OUT_OF_DATE_KHR"
  \/ /\ pc \in RecreatePositions
     /\ frameLog # <<>>
     /\ frameLog[Len(frameLog)].call = "vkAcquireNextImageKHR"

\* What a slot holds, apart from references into the swapchain's objects
\* (which the recreation leaves dangling without touching the slot).
SlotState(resources) ==
  [s \in DOMAIN resources |->
     [resources[s] EXCEPT !.commandBuffer.framebuffer = NoImage]]

\* C13: in a frame() whose acquisition returns VK_ERROR_OUT_OF_DATE_KHR, no
\* step of the host thread, from the entry of frame() to its return, changes
\* a slot's fence, semaphores, command buffer or uniform buffer, or hands
\* anything to a queue; the calls made are the wait and the acquisition only,
\* and currentFrame is advanced once, at the entry.
C13_OutOfDateAcquireLeavesSlots ==
  [][/\ (AcquireOutOfDate => /\ Len(frameLog) = 2
                              /\ frameLog[1].call = "vkWaitForFences"
                              /\ imageIndex = NoImage)
     /\ ( /\ pc' # pc
          /\ \/ pc \in {"frame", "vkWaitForFences"}
             \/ pc = "vkAcquireNextImageKHR" /\ acquireResult' = "VK_ERROR_OUT_OF_DATE_KHR"
             \/ AcquireOutOfDate )
        => /\ SlotState(vkFrameRenderResources') = SlotState(vkFrameRenderResources)
           /\ vkDescriptorSets' = vkDescriptorSets
           /\ Len(gpuQueue') = Len(gpuQueue)
           /\ Len(presentQueue') = Len(presentQueue)
           /\ (pc # "frame" => currentFrame' = currentFrame)
           /\ (pc = "frame" => currentFrame' = (currentFrame + 1) % CounterPeriod)]_vars

\* The early return is taken while the other slot's submission is still in
\* the queue and its fence unsignalled.
C13_Witness ==
  /\ pc = "recreateVulkanSwapchain"
  /\ AcquireOutOfDate
  /\ gpuQueue # <<>>
  /\ \E s \in Slots : ~vkFrameRenderResources[s].inFlightFence

\* C14: after an acquisition that returned VK_SUCCESS or VK_SUBOPTIMAL_KHR
\* frame() goes on to updateUniformBuffer with the acquired image, and the
\* state it goes on from does not tell the two results apart; a frame() that
\* holds an acquired image enters recreateVulkanSwapchain() only from the
\* test of a presentResult of VK_ERROR_OUT_OF_DATE_KHR or VK_SUBOPTIMAL_KHR.
C14_SuboptimalAcquireIsSuccess ==
  [][/\ ( /\ pc = "acquireResult"
          /\ acquireResult \in {"VK_SUCCESS", "VK_SUBOPTIMAL_KHR"}
          /\ pc' # pc )
        => /\ pc' = "updateUniformBuffer"
           /\ imageIndex \in DOMAIN imageOwner
           /\ imageOwner[imageIndex] = "app"
           /\ acquireResult' = "none"
           /\ UNCHANGED <<exception, currentFrame, frameIndex, imageIndex, presentResult,
                          rcSize, swapchainVars, deviceVars, historyVars>>
     /\ ( /\ pc' = "recreateVulkanSwapchain"
          /\ pc # "recreateVulkanSwapchain"
          /\ imageIndex # NoImage )
        => /\ pc = "presentResult"
           /\ presentResult \in {"VK_ERROR_OUT_OF_DATE_KHR", "VK_SUBOPTIMAL_KHR"}
           /\ frameLog[Len(frameLog)] =
                [call |-> "vkQueuePresentKHR", slot |-> frameIndex, image |-> imageIndex]
     /\ ( /\ vkSwapchain' # vkSwapchain
          /\ pc \in LoopPositions )
        => pc \in RecreatePositions]_vars

\* The acquisition returned VK_SUBOPTIMAL_KHR with an image, while the
\* previous frame's work is still in the queue.
C14_Witness ==
  /\ pc = "acquireResult"
  /\ acquireResult = "VK_SUBOPTIMAL_KHR"
  /\ imageIndex # NoImage
  /\ gpuQueue # <<>>

\* The positions of frame() at which it holds an acquired image.
HoldsImage ==
  /\ program = "final"
  /\ pc \in {"updateUniformBuffer", "vkResetCommandBuffer", "recordVulkanCommandBuffer",
             "vkResetFences", "vkQueueSubmit", "vkQueuePresentKHR"}

\* C17: while frame() holds an acquired image the swapchain is live, the
\* image, image-view and framebuffer vectors all have the length of the
\* swapchain's image count, their elements are those created with it (none
\* destroyed), and imageIndex is within them; the framebuffer a recorded
\* command buffer of this frame names is the one at imageIndex.
C17_SwapchainVectorsAgree ==
  /\ (program = "final" /\ pc = "acquireResult" /\ imageIndex # NoImage) \/ HoldsImage
       => /\ vkSwapchain = "live"
          /\ DOMAIN imageOwner = 0 .. (vkSwapchainImages - 1)
          /\ vkSwapchainImageViews.size = vkSwapchainImages
          /\ vkSwapchainFramebuffers.size = vkSwapchainImages
          /\ vkSwapchainImageViews.alive
          /\ vkSwapchainFramebuffers.alive
          /\ imageIndex \in 0 .. (vkSwapchainFramebuffers.size - 1)
  /\ (HoldsImage /\ pc \in {"vkResetFences", "vkQueueSubmit", "vkQueuePresentKHR"})
       => CommandBuffer(frameIndex).framebuffer = imageIndex

\* After a recreation (the other slot's command buffer still names a
\* framebuffer of the replaced swapchain) frame() records on the last image
\* of a swapchain with MaxImages images.
C17_Witness ==
  /\ pc = "vkResetFences"
  /\ imageIndex = MaxImages - 1
  /\ CommandBuffer(frameIndex).framebuffer = imageIndex
  /\ \E s \in Slots : CommandBuffer(s).framebuffer = Outdated

\* C18: recreateVulkanSwapchain() is at cleanupVulkanSwapchain() or at
\* createVulkanSwapchain() only while the window's framebuffer has a
\* non-zero width and height.
C18_NoRecreateWhileMinimized ==
  (program = "final" /\ pc \in {"recreate.cleanup", "recreate.create"})
    => ~IsZero(windowSize)

Status(name) == objects[<<name, 0>>].status
FirstMissingLayer == FirstMissing(VK_VALIDATION_LAYERS, installedLayers)

\* C11: in a build with validation layers, a layer missing from the
\* installed ones makes createVulkanInstance() throw its "requested, but not
\* available" error with no instance created and no create info handed to
\* vkCreateInstance; the debug messenger is created at most once, is live
\* only while the instance is, and is destroyed when the instance is.  In
\* a build without, the instance is created with no layers and a null pNext
\* and no debug messenger is created or destroyed.  With validation the
\* instance gets the layers and the debug create info.
C11_ValidationLayers ==
  /\ (VK_ENABLE_VALIDATION_LAYERS /\ FirstMissingLayer # 0)
       => /\ Status("vkInstance") = "none"
          /\ createInfo = NoCreateInfo
          /\ pc \in {"initWindow", "createVulkanInstance", "threw", "exited"}
          /\ (pc = "threw" /\ windowSize # NoSize)
               => exception = ByValue(<<"Validation layer",
                                        VK_VALIDATION_LAYERS[FirstMissingLayer],
                                        "requested, but not available">>)
  /\ Status("vkDebugMessenger") \in {"none", "live", "destroyed"}
  /\ objects[<<"vkDebugMessenger", 0>>].made <= 1
  /\ Status("vkDebugMessenger") = "live" => Status("vkInstance") = "live"
  /\ (Status("vkInstance") = "destroyed" /\ VK_ENABLE_VALIDATION_LAYERS)
       => Status("vkDebugMessenger") = "destroyed"
  /\ Status("vkInstance") # "none"
       => createInfo = IF VK_ENABLE_VALIDATION_LAYERS
                         THEN [enabledLayerCount |-> Len(VK_VALIDATION_LAYERS),
                               pNext |-> "debugCreateInfo"]
                         ELSE [enabledLayerCount |-> 0, pNext |-> "nullptr"]
  /\ ~VK_ENABLE_VALIDATION_LAYERS
       => /\ objects[<<"vkDebugMessenger", 0>>] = [status |-> "none", made |-> 0]
          /\ createInfo = [enabledLayerCount |-> 0, pNext |-> "nullptr"]

\* The final program, built with validation layers, has destroyed its debug
\* messenger and then its instance.
C11_Witness ==
  /\ program = "final"
  /\ VK_ENABLE_VALIDATION_LAYERS
  /\ createInfo.pNext = "debugCreateInfo"
  /\ Status("vkDebugMessenger") = "destroyed"
  /\ Status("vkInstance") = "destroyed"

SwapchainObjects == {o \in ObjectIds : o[1] \in {"vkSwapchain"} \cup SwapchainVectorNames}
InRecreate == InSeq(pc, Positions(recreateVulkanSwapchain))

\* C16: no step of recreateVulkanSwapchain() creates, destroys or otherwise
\* changes an object other than the swapchain, its image views and its
\* framebuffers, nor currentFrame; when it returns, the swapchain is a new
\* one, the image view and framebuffer of each of its images are live and no
\* others are, and the vectors have the new image count.
C16_RecreateReplacesSwapchainOnly ==
  [][InRecreate
       => /\ \A o \in ObjectIds \ SwapchainObjects : objects'[o] = objects[o]
          /\ UNCHANGED <<currentFrame, vkFrameRenderResources, vkDescriptorSets, createInfo>>
          /\ (pc' = "mainLoop")
               => /\ vkSwapchainImageViews'.size = vkSwapchainImages'
                  /\ vkSwapchainFramebuffers'.size = vkSwapchainImages'
                  /\ objects'[<<"vkSwapchain", 0>>].made >= 2
                  /\ \A o \in SwapchainObjects :
                       IF o[2] < vkSwapchainImages'
                         THEN objects'[o].status = "live"
                         ELSE objects'[o].status \in {"none", "destroyed"}]_vars

\* The swapchain has been recreated twice and now has fewer images than
\* before; the render pass is the one initVulkan() created.
C16_Witness ==
  /\ pc = "mainLoop"
  /\ objects[<<"vkSwapchain", 0>>].made = 3
  /\ vkSwapchainImages = 2
  /\ objects[<<"vkSwapchainImageViews", 2>>].status = "destroyed"
  /\ objects[<<"vkRenderPass", 0>>] = [status |-> "live", made |-> 1]

\* C20: no object is destroyed twice or without having been created, none is
\* left live when an object it was created from is destroyed, and none is
\* overwritten while live; once the device is destroyed nothing created from
\* it is live, once the instance is destroyed neither the device, the
\* surface nor the debug messenger is, and once the window is destroyed
\* neither the surface nor the instance is; when the pipeline or the final
\* program exits normally every object it created has been destroyed.
C20_CleanupOrder ==
  /\ \A o \in ObjectIds : objects[o].status \in {"none", "live", "destroyed"}
  /\ Status("vkDevice") = "destroyed"
       => \A o \in ObjectIds : <<"vkDevice", 0>> \in Parents(o) => objects[o].status # "live"
  /\ Status("vkInstance") = "destroyed"
       => \A name \in {"vkDevice", "vkSurface", "vkDebugMessenger"} : Status(name) # "live"
  /\ Status("glfwWindow") = "destroyed"
       => \A name \in {"vkSurface", "vkInstance"} : Status(name) # "live"
  /\ (program \in {"pipeline", "final"} /\ exitCode = "EXIT_SUCCESS")
       => \A o \in ObjectIds :
            IF objects[o].made = 0 THEN objects[o].status = "none"
                                   ELSE objects[o].status = "destroyed"

\* The final program, built with validation layers, exits normally after two
\* recreations of the swapchain, the last with fewer images.
C20_Witness ==
  /\ program = "final"
  /\ exitCode = "EXIT_SUCCESS"
  /\ VK_ENABLE_VALIDATION_LAYERS
  /\ objects[<<"vkSwapchain", 0>>] = [status |-> "destroyed", made |-> 3]
  /\ vkSwapchainImages = 2
  /\ objects[<<"vkSwapchainImageViews", 2>>].made > 0
  /\ Status("glfwWindow") = "destroyed"

\* C15: each call of frame() takes a slot of vkFrameRenderResources, the
\* first call slot 0 and every later call the slot after the one the call
\* before it took, in the round 0, 1, ..., MAX_FRAMES_IN_FLIGHT - 1, 0, ...,
\* whether the call before returned early or not; and it advances
\* currentFrame by one, from the counter's largest value to 0.
C15_SlotsRoundRobin ==
  [][pc = "frame"
       => /\ frameIndex' \in DOMAIN vkFrameRenderResources
          /\ frameIndex' < MAX_FRAMES_IN_FLIGHT
          /\ frameIndex' = IF frameIndex = NoSlot
                             THEN 0
                             ELSE (frameIndex + 1) % MAX_FRAMES_IN_FLIGHT
          /\ currentFrame' = IF currentFrame = CounterModulus - 1
                               THEN 0
                               ELSE currentFrame + 1]_vars

\* The call of frame() that made currentFrame wrap to 0 took the last slot
\* and returned early after an out-of-date acquisition.
C15_Witness ==
  /\ pc = "frame"
  /\ currentFrame = 0
  /\ frameIndex = MAX_FRAMES_IN_FLIGHT - 1
  /\ acquireResult = "VK_ERROR_OUT_OF_DATE_KHR"

\* C19: whenever recreateVulkanSwapchain() is in its wait loop and the
\* window's framebuffer has a non-zero size, the loop is eventually left, or
\* the size becomes zero again; no event is assumed to arrive.
C19_WaitLoopEnds ==
  (pc \in WaitLoopPositions /\ ~IsZero(windowSize))
    ~> (pc \notin WaitLoopPositions \/ IsZero(windowSize))

\* C21: when a program has exited normally, none of the objects it created
\* is still live (nor lost by being overwritten, nor left behind by the
\* destruction of what it was created from).
C21_NothingOutlivesCleanup ==
  exitCode = "EXIT_SUCCESS"
    => \A o \in ObjectIds : objects[o].status \in {"none", "destroyed"}

CleanupPositions ==
  {Positions(cleanup("final", TRUE, 0, 0))[k] :
     k \in 1 .. Len(Positions(cleanup("final", TRUE, 0, 0)))}
Ended == pc \in {"threw", "terminated"} \/ exitCode \in {"EXIT_FAILURE", "terminate"}

\* C22: cleanup() is entered only from a mainLoop() that returned, with no
\* exception in flight, and run() returns only through cleanup(); a mainLoop()
\* that returns enters cleanup().  The step that throws and every step after
\* it, up to the end of the program, leave every object as it is: none is
\* destroyed, and neither the window nor the instance has been.
C22_CleanupIffNoThrow ==
  [][/\ (pc' \in CleanupPositions)
         => /\ exception' = NoException
            /\ pc \in {"mainLoop"} \cup CleanupPositions
     /\ (pc' = "returned") => pc \in CleanupPositions
     /\ (pc = "mainLoop" /\ pc' \notin {"mainLoop", "threw"} /\ ~InRecreate')
         => pc' \in CleanupPositions
     /\ (pc' = "threw" \/ Ended)
         => /\ objects' = objects
            /\ pc' \notin CleanupPositions \cup {"returned"}
            /\ \A o \in ObjectIds :
                 (objects[o].made > 0 /\ o[1] \in {"glfwWindow", "vkInstance"})
                   => (objects'[o].status = "live")]_vars

\* The final program has returned EXIT_FAILURE after a failure in its main
\* loop, its swapchain recreated once: the device, the swapchain and the
\* window are still live.
C22_Witness ==
  /\ program = "final"
  /\ exitCode = "EXIT_FAILURE"
  /\ stderr = <<"Failed to submit draw command buffer">>
  /\ objects[<<"vkSwapchain", 0>>] = [status |-> "live", made |-> 2]
  /\ Status("vkDevice") = "live"
  /\ Status("glfwWindow") = "live"

\* C23: when vkQueueSubmit queues a submission that will signal the slot's
\* renderFinishedSemaphore, no present that waits on that semaphore is still
\* queued.
C23_SemaphoreNotResignalled ==
  [][(program = "final" /\ pc = "vkQueueSubmit" /\ Len(gpuQueue') > Len(gpuQueue))
       => \A j \in DOMAIN presentQueue : presentQueue[j].slot # frameIndex]_vars

\* The objects that live only while the function that creates them runs.
Temporaries ==
  {"stagingBuffer", "stagingBufferMemory", "copyCommandBuffer", "vertexShaderModule",
   "fragmentShaderModule"} \X {0}
\* The objects of the final program that exist from initVulkan() to cleanup().
Permanents ==
  {o \in ObjectIds \ Temporaries :
     /\ o[1] \in SwapchainVectorNames => o[2] < vkSwapchainImages
     /\ o[1] = "vkDebugMessenger" => VK_ENABLE_VALIDATION_LAYERS}

\* C24: in the final program every object is created while every object its
\* creation refers to is live; the physical device is selected while the
\* instance and the surface are live; and while the program is in its main
\* loop every object of initVulkan() is live.
C24_CreatedAfterReferences ==
  [][program = "final"
       => /\ \A o \in ObjectIds :
               (objects'[o].made > objects[o].made)
                 => \A r \in References(o) : objects[r].status = "live"
          /\ (pc' = "createVulkanPhysicalDevice")
               => (Status("vkInstance")' = "live" /\ Status("vkSurface")' = "live")
          /\ (pc' = "mainLoop")
               => \A o \in Permanents' : objects'[o].status = "live"]_vars

\* The final program, built with validation layers, is in its main loop
\* before its first frame: the staging buffer has been created and destroyed
\* twice, the descriptor sets are allocated.
C24_Witness ==
  /\ program = "final"
  /\ pc = "mainLoop"
  /\ VK_ENABLE_VALIDATION_LAYERS
  /\ objects[<<"vkSwapchain", 0>>].made = 1
  /\ objects[<<"stagingBuffer", 0>>] = [status |-> "destroyed", made |-> 2]
  /\ objects[<<"copyCommandBuffer", 0>>] = [status |-> "destroyed", made |-> 2]
  /\ objects[<<"vkDescriptorSets", 1>>].status = "live"

\* C25: the image count createVulkanSwapchain() requests is at least the
\* surface's minImageCount and, when maxImageCount is not 0, at most
\* maxImageCount.
C25_ImageCountWithinLimits ==
  pc = "vkCreateSwapchainKHR"
    => /\ swapchainCreateInfo.minImageCount >= details.capabilities.minImageCount
       /\ details.capabilities.maxImageCount > 0
            => swapchainCreateInfo.minImageCount <= details.capabilities.maxImageCount

\* C26: the extent written to the swapchain's create info is the surface's
\* currentExtent, unchanged, whenever currentExtent.width is not 0xFFFFFFFF
\* (whatever its height and whatever the limits); otherwise its width and
\* height lie within minImageExtent and maxImageExtent, and each is the
\* window's framebuffer size where that lies within the limits, the nearer
\* limit where it does not.
C26_Nearest(v, lo, hi, r) ==
  /\ lo <= r /\ r <= hi
  /\ (lo <= v /\ v <= hi) => r = v
  /\ v < lo => r = lo
  /\ v > hi => r = hi

C26_ExtentWithinLimits ==
  pc = "vkCreateSwapchainKHR"
    => LET capabilities == details.capabilities
           extent == swapchainCreateInfo.imageExtent
       IN IF capabilities.currentExtent.width # UINT32_MAX
            THEN extent = capabilities.currentExtent
            ELSE /\ C26_Nearest(windowSize.width, capabilities.minImageExtent.width,
                                capabilities.maxImageExtent.width, extent.width)
                 /\ C26_Nearest(windowSize.height, capabilities.minImageExtent.height,
                                capabilities.maxImageExtent.height, extent.height)

\* C26 witness: the surface leaves the extent to the swapchain, the window is
\* larger than the largest extent the surface allows, and the extent
\* requested is that largest extent.
C26_Witness ==
  /\ pc = "vkCreateSwapchainKHR"
  /\ details.capabilities.currentExtent.width = UINT32_MAX
  /\ windowSize.width > details.capabilities.maxImageExtent.width
  /\ windowSize.height > details.capabilities.maxImageExtent.height
  /\ swapchainCreateInfo.imageExtent = details.capabilities.maxImageExtent

\* C27: the surface format written to the create info is an element of
\* formats; it is the first element that has both VK_FORMAT_B8G8R8A8_SRGB and
\* VK_COLOR_SPACE_SRGB_NONLINEAR_KHR when there is one and formats[0] (the
\* sequence's first element) when there is none; and the present mode is
\* VK_PRESENT_MODE_FIFO_KHR whatever presentModes holds.
C27_Preferred(f) ==
  f.format = VK_FORMAT_B8G8R8A8_SRGB /\ f.colorSpace = VK_COLOR_SPACE_SRGB_NONLINEAR_KHR

C27_FormatAndPresentMode ==
  pc = "vkCreateSwapchainKHR"
    => LET formats == details.formats
           chosen == [format |-> swapchainCreateInfo.imageFormat,
                      colorSpace |-> swapchainCreateInfo.imageColorSpace]
       IN /\ \E i \in 1 .. Len(formats) : formats[i] = chosen
          /\ (\E i \in 1 .. Len(formats) : C27_Preferred(formats[i]))
               => \E i \in 1 .. Len(formats) :
                    /\ formats[i] = chosen
                    /\ C27_Preferred(chosen)
                    /\ \A j \in 1 .. (i - 1) : ~C27_Preferred(formats[j])
          /\ (\A i \in 1 .. Len(formats) : ~C27_Preferred(formats[i]))
               => chosen = formats[1]
          /\ swapchainCreateInfo.presentMode = VK_PRESENT_MODE_FIFO_KHR

\* C27 witness: the preferred format is the second of two, after one that
\* has the format in another colour space, and the surface does not list
\* FIFO among its present modes.
C27_Witness ==
  /\ pc = "vkCreateSwapchainKHR"
  /\ Len(details.formats) = 2
  /\ details.formats[1].format = VK_FORMAT_B8G8R8A8_SRGB
  /\ ~C27_Preferred(details.formats[1])
  /\ C27_Preferred(details.formats[2])
  /\ swapchainCreateInfo.imageColorSpace = VK_COLOR_SPACE_SRGB_NONLINEAR_KHR
  /\ VK_PRESENT_MODE_FIFO_KHR \notin details.presentModes
  /\ swapchainCreateInfo.presentMode = VK_PRESENT_MODE_FIFO_KHR

\* C28: in the final program a copy is in the graphics queue only while
\* copyVulkanBuffer, called by createVulkanVertexBuffer or
\* createVulkanIndexBuffer, is at its vkQueueWaitIdle, with the
\* vkFreeCommandBuffers of its command buffer and the destruction of the
\* staging buffer and of its memory still to come; so everything the queued
\* copy uses (its command buffer, the staging buffer and its memory, the
\* destination buffer and its memory) is live for as long as the copy is
\* queued.
C28_StagingCopySynchronous ==
  \A i \in 1 .. Len(gpuQueue) :
    /\ program = "final"
    /\ pc \in {"createVulkanVertexBuffer", "createVulkanIndexBuffer"}
    /\ pending # <<>>
    /\ Head(pending) = WaitIdleCall
    /\ \E k \in 1 .. Len(pending) : pending[k] = DestroyCall("copyCommandBuffer", 0)
    /\ \E k \in 1 .. Len(pending) : pending[k] = DestroyCall("stagingBuffer", 0)
    /\ \E k \in 1 .. Len(pending) : pending[k] = DestroyCall("stagingBufferMemory", 0)
    /\ \A o \in gpuQueue[i].uses : objects[o].status = "live"

\* C28 witness: the vertex buffer's staging copy is over and its staging
\* buffer destroyed; the index buffer's copy, from the second staging buffer,
\* is in the queue.
C28_Witness ==
  /\ pc = "createVulkanIndexBuffer"
  /\ gpuQueue # <<>>
  /\ gpuQueue[1].src = <<"stagingBuffer", 0>>
  /\ gpuQueue[1].dst = <<"vkIndexBuffer", 0>>
  /\ objects[<<"stagingBuffer", 0>>].made = 2
  /\ objects[<<"copyCommandBuffer", 0>>].made = 2

====
